---- MODULE Spec2Model ----
(***************************************************************************)
(* Model of the uniOS kernel scheduler (src/kernel/core/scheduler.cpp).    *)
(*                                                                         *)
(* Process records live in slots 1..MaxProcs; slot 1 is the idle task that *)
(* scheduler_init() builds.  A pointer to a Process is its slot number and *)
(* NULL is 0.  The single CPU executes the code of current_process; every  *)
(* process has its own position (pc) in the scheduler function it is       *)
(* executing, and the timer IRQ (kernel.cpp irq_handler) may arrive        *)
(* between any two steps that run with interrupts enabled.                 *)
(* What a task does between scheduler calls is not modelled: at pc "run" a *)
(* task may call any scheduler operation (this covers the child of a fork, *)
(* which resumes on a copy of its parent's stack).                         *)
(*                                                                         *)
(* Atomicity: scheduler_schedule() and lines 306-311 of scheduler_sleep    *)
(* run under interrupts_save_disable, and the IRQ handler runs with        *)
(* interrupts off, so each is one step.  Every other statement that writes *)
(* shared state is a step of its own; a list scan is one step (the scan of *)
(* process_waitpid together with the reap that ends it: only the parent    *)
(* ever touches a Zombie).  A NULL next pointer dereferenced is a page     *)
(* fault, which                                                            *)
(* exception_handler() ends in hcf(): the kernel is halted.                *)
(*                                                                         *)
(* The syscall layer (src/kernel/core/syscall.cpp) and the keyboard ring   *)
(* (src/kernel/drivers/usb/usb_hid.cpp) are modelled next to it.  A        *)
(* syscall is one step of the running task: the FD table is used by one    *)
(* caller at a time, and kb_buffer_push and usb_hid_keyboard_get_char are  *)
(* both called from the main loop.  Addresses are words of WordBits bits   *)
(* with user space the lowest 2^UserBits of them; uint64_t arithmetic is   *)
(* taken modulo 2^WordBits.  The file system is an image of two entries.   *)
(*                                                                         *)
(* The HID driver (usb_hid.cpp), the ACPI driver (src/kernel/acpi.cpp) and *)
(* the flat file system (src/kernel/fs/unifs.cpp) follow.  usb_hid_poll is *)
(* one step of the main loop; the results of its interrupt transfers are   *)
(* inputs.  Ticks, key slots, report bytes and int32_t are scaled down by  *)
(* the bounds below.  A DSDT is the bytes behind its header, and an image  *)
(* of the file system is its bytes, with shorter name and integer fields.  *)
(* What the kernel draws on the framebuffer is not modelled.               *)
(*                                                                         *)
(* The page mapper (src/kernel/vmm.cpp) works on frames of TableEntries    *)
(* entries each.  Three sections take one function line by line, for the   *)
(* specifications that ask what happens between its lines:                 *)
(* scheduler_schedule() with the interrupt-enable flag of the CPU, one     *)
(* kb_buffer_push against one usb_hid_keyboard_get_char, and sys_open      *)
(* between its search for a free slot and the marking of it.               *)
(***************************************************************************)
EXTENDS Integers, Sequences, FiniteSets, TLC

\* ---- bounds of the model ----
MaxSlots == 4       \* Process records the model can hold
MaxProcs == 3       \* capacity under Spec: the heap holds so many records, and
                    \* creation is stopped once next_pid reaches this value
MaxLive == 2        \* capacity under SpecFair
MaxTicks == 1       \* the tick counter saturates here
MaxSleep == 1       \* largest argument of scheduler_sleep
MaxWaitPid == 1     \* largest specific pid passed to process_waitpid
WordBits == 5       \* width of a machine word in the model (64 in the code)
UserBits == 3       \* user space is [0, 2^UserBits) (2^47 in the code)
MaxDraw == 1        \* characters per line and lines the screen cursor may advance
MaxString == 3      \* max_len of validate_user_string (4096 in the code)
ReportKeys == 2     \* key slots of a keyboard report (6 in the code)
MaxHidTicks == 8    \* the HID specifications stop the timer here
IntBits == 4        \* width of int32_t in the mouse model
ByteBits == 3       \* width of a byte of a mouse report (int8_t deltas)
MaxScreen == 3      \* largest width and height passed to usb_hid_set_screen_size

NULL == 0
FAULT == -1         \* result of a walk that dereferences NULL
Slots == 1 .. MaxSlots
ExitStatuses == {42}
WaitArgs == {-1} \cup (1 .. MaxWaitPid)
SleepArgs == 0 .. MaxSleep

PROCESS_FREE == "Free"          \* slot not allocated (not a state of the code)
PROCESS_READY == "Ready"
PROCESS_RUNNING == "Running"
PROCESS_SLEEPING == "Sleeping"
PROCESS_WAITING == "Waiting"
PROCESS_ZOMBIE == "Zombie"
PROCESS_BLOCKED == "Blocked"

VARIABLES
    state,            \* Process::state per slot
    pid,              \* Process::pid
    parent_pid,       \* Process::parent_pid
    exit_status,      \* Process::exit_status
    wait_for_pid,     \* Process::wait_for_pid
    wake_time,        \* Process::wake_time
    next,             \* Process::next (slot or NULL)
    current_process,  \* static Process* current_process
    process_list,     \* static Process* process_list
    next_pid,         \* static uint64_t next_pid
    scheduler_lock,   \* static Spinlock scheduler_lock (0 free, 1 held)
    ticks,            \* timer_get_ticks()
    pc,               \* position of each task in the scheduler code
    tmp,              \* per task: the value of next_pid it has loaded
    arg,              \* per task: the argument of the call it is in
    newp,             \* per task: the record it is creating (new_process / child)
    halted,           \* the kernel took a fault and sits in hcf()
    last,             \* the most recent return of an operation
    status_arg,       \* per task: the status pointer of the waitpid call it is in
    fd_table,         \* static FileDescriptor fd_table[MAX_OPEN_FILES]
    fd_initialized,   \* static bool fd_initialized
    sys_cursor_x,     \* static uint64_t sys_cursor_x
    sys_cursor_y,     \* static uint64_t sys_cursor_y
    kb_buffer,        \* static char kb_buffer[KB_BUFFER_SIZE]
    kb_buffer_start,  \* static volatile uint8_t kb_buffer_start
    kb_buffer_end,    \* static volatile uint8_t kb_buffer_end
    kb_fifo,          \* history: the characters pushed and kept, not yet returned
    timer_ticks,      \* timer_get_ticks() as the HID driver reads it
    usb_devices,      \* the devices usb_get_device(i) returns, i < usb_get_device_count()
    last_keyboard_report, \* static HidKeyboardReport last_keyboard_report
    repeat_keycode,   \* static uint8_t repeat_keycode
    repeat_start_tick, \* static uint64_t repeat_start_tick
    repeat_last_tick, \* static uint64_t repeat_last_tick
    repeat_shift,     \* static bool repeat_shift
    last_keyboard_poll, \* static uint64_t last_keyboard_poll
    mouse_x,          \* static int32_t mouse_x
    mouse_y,          \* static int32_t mouse_y
    mouse_buttons,    \* mouse_left, mouse_right, mouse_middle
    mouse_scroll,     \* static int8_t mouse_scroll
    mouse_available,  \* static bool mouse_available
    mouse_data_received, \* static bool mouse_data_received
    screen_width,     \* static int32_t screen_width
    screen_height,    \* static int32_t screen_height
    hid_log,          \* history: what the latest usb_hid_poll did
    acpi_available,   \* static bool acpi_available
    pm1a_cnt,         \* static uint32_t pm1a_cnt
    pm1b_cnt,         \* static uint32_t pm1b_cnt
    slp_typa,         \* static uint16_t slp_typa
    slp_typb,         \* static uint16_t slp_typb
    smi_cmd_port,     \* static uint32_t smi_cmd_port
    acpi_enable_val,  \* static uint8_t acpi_enable_val
    io_log,           \* history: the cli and port writes acpi_poweroff executed
    acpi_tables,      \* history: the tables acpi_init ran on
    powered_off,      \* a port write of acpi_poweroff switched the machine off
    fs_start,         \* static uint8_t* fs_start: the bytes it points to (NULL: none)
    mounted,          \* static bool mounted
    open_file,        \* static UniFSFile file of unifs_open
    fs_files,         \* history: the files the mounted image was built from
    pt_mem,           \* physical memory as page tables: the entries of each frame
    pmm_used,         \* the frames pmm_alloc_frame has handed out
    vmm_log,          \* history: the tables get_next_level installed
    if_flag,          \* the interrupt-enable flag of the CPU (RFLAGS.IF)
    on_stack,         \* the task whose kernel stack the CPU runs on
    frames,           \* per task: its calls of scheduler_schedule(), innermost last
    push_at,          \* the line the kb_buffer_push in progress is at ("idle": none)
    push_c,           \* its argument c
    get_at,           \* the line the usb_hid_keyboard_get_char in progress is at
    get_c,            \* its local c
    open_fd,          \* per task: the local fd of the sys_open it is in
    open_local,       \* per task: the local UniFSFile file of that sys_open
    fd_holders        \* history: the << task, fd >> pairs opened and not yet closed

fdvars == << fd_table, fd_initialized, sys_cursor_x, sys_cursor_y >>

kbvars == << kb_buffer, kb_buffer_start, kb_buffer_end, kb_fifo >>

repeatvars == << repeat_keycode, repeat_start_tick, repeat_last_tick, repeat_shift >>

mousevars == << mouse_x, mouse_y, mouse_buttons, mouse_scroll, mouse_available,
               mouse_data_received, screen_width, screen_height >>

\* The state of the HID driver next to the ring.
hidvars == << timer_ticks, usb_devices, last_keyboard_report, repeatvars,
             last_keyboard_poll, mousevars, hid_log >>

\* The state of the ACPI driver.
acpivars == << acpi_available, pm1a_cnt, pm1b_cnt, slp_typa, slp_typb, smi_cmd_port,
              acpi_enable_val, io_log, acpi_tables, powered_off >>

\* The state of the page mapper.
vmmvars == << pt_mem, pmm_used, vmm_log >>

\* The CPU inside scheduler_schedule(), step by step.
irqvars == << if_flag, on_stack, frames >>

\* A push and a get_char on the keyboard ring, line by line.
ringvars == << push_at, push_c, get_at, get_c >>

\* A sys_open in two steps.
openvars == << open_fd, open_local, fd_holders >>

\* The state of the rest of the kernel, and all of it but one part.
extvars == << vmmvars, irqvars, ringvars, openvars >>
notvmm == << irqvars, ringvars, openvars >>
notirq == << vmmvars, ringvars, openvars >>
notring == << vmmvars, irqvars, openvars >>
notopen == << vmmvars, irqvars, ringvars >>

\* The state of the flat file system.
unifsvars == << fs_start, mounted, open_file, fs_files >>

\* The state of the device drivers and of the file system.
devvars == << hidvars, acpivars, unifsvars, extvars >>

\* The state of the syscall layer and of the keyboard ring, which no scheduler
\* function touches.
sysvars == << fdvars, kbvars, devvars >>

vars == << state, pid, parent_pid, exit_status, wait_for_pid, wake_time, next,
           current_process, process_list, next_pid, scheduler_lock, ticks,
           pc, tmp, arg, newp, halted, last, status_arg, sysvars >>

procvars == << pid, parent_pid, exit_status, wait_for_pid, wake_time >>

NoEvent == [op |-> "step", p |-> 0, val |-> 0, st |-> 0]

Event(o, p, v, s) == [op |-> o, p |-> p, val |-> v, st |-> s]

\* ---- the list ----

RECURSIVE FindFrom(_, _, _, _)
\* The do-while walks of the code: test p, advance, stop when back at `stop'.
\* Result: the first node in S, NULL when the walk ends, FAULT on NULL->...
FindFrom(nx, p, stop, S) ==
    IF p = NULL THEN FAULT
    ELSE IF p \in S THEN p
    ELSE IF nx[p] = stop THEN NULL
    ELSE FindFrom(nx, nx[p], stop, S)

RECURSIVE NodesFrom(_, _, _)
\* The nodes a full walk from p visits before it returns to `stop' or hits NULL.
NodesFrom(nx, p, stop) ==
    IF p = NULL THEN {}
    ELSE IF nx[p] = stop THEN {p}
    ELSE {p} \cup NodesFrom(nx, nx[p], stop)

ListNodes == NodesFrom(next, process_list, process_list)

\* A full walk from the head faults iff it reaches a next pointer that is NULL.
WalkFaults == FindFrom(next, process_list, process_list, {}) = FAULT

process_find_by_pid(id) ==
    FindFrom(next, process_list, process_list, {q \in Slots : pid[q] = id /\ state[q] # PROCESS_FREE})

\* The tail the link loops find: while (last->next != process_list) last = last->next
RECURSIVE LastFrom(_, _)
LastFrom(nx, p) ==
    IF nx[p] = process_list THEN p ELSE LastFrom(nx, nx[p])


\* ---- scheduler_schedule ----

\* A schedule() that also picks Zombie processes.
RunnableOrZombie(st) == {q \in Slots : st[q] \in {PROCESS_READY, PROCESS_RUNNING, PROCESS_ZOMBIE}}

Runnable(st) == {q \in Slots : st[q] \in {PROCESS_READY, PROCESS_RUNNING}}

\* wake_sleeping_processes(): every list node that is Sleeping and due is Ready.
wake_sleeping_processes(st, now) ==
    [q \in Slots |->
        IF q \in ListNodes /\ st[q] = PROCESS_SLEEPING /\ now >= wake_time[q]
        THEN PROCESS_READY ELSE st[q]]

\* The outcome of one call of scheduler_schedule() with the tick count `now':
\*   st, cur : the states and current_process afterwards
\*   how     : "early" (returned without switching), "switch", or "fault"
\*             (a walk dereferenced a NULL next pointer: page fault, hcf()).
\* A search for the next process that starts at the head of the list.
FirstCandidateIsHead(cur) == process_list

\* Line 156: Process* next = current_process->next
FirstCandidate(cur) == next[cur]

\* scheduler_schedule() (lines 146-189) on the states st with cur the current
\* process.
schedule_from(st, cur, now) ==
    LET st1 == wake_sleeping_processes(st, now)
        start == FirstCandidate(cur)
        nxt == FindFrom(next, start, start, Runnable(st1))
    IN  IF WalkFaults \/ nxt = FAULT
        THEN [st |-> st1, cur |-> cur, how |-> "fault"]
        ELSE IF nxt = NULL \/ nxt = cur
        THEN [st |-> st1, cur |-> cur, how |-> "early"]
        ELSE [st |-> [st1 EXCEPT
                        ![cur] = IF st1[cur] = PROCESS_RUNNING
                                 THEN PROCESS_READY ELSE st1[cur],
                        ![nxt] = PROCESS_RUNNING],
              cur |-> nxt, how |-> "switch"]

scheduler_schedule(now) == schedule_from(state, current_process, now)

\* The part of a step that calls scheduler_schedule(): p is the caller.
Schedule(p, now) ==
    LET r == scheduler_schedule(now)
    IN  /\ state' = r.st
        /\ current_process' = r.cur
        /\ halted' = (r.how = "fault")
        /\ last' = Event("sched_" \o r.how, 0, 0, 0)

\* A task executes only while it is current_process and the kernel is up.
Executes(p) == ~halted /\ p = current_process /\ state[p] # PROCESS_FREE

\* kernel.cpp irq_handler, irq 0: timer_handler() then scheduler_schedule().
TimerIRQ ==
    /\ ~halted
    /\ ticks' = IF ticks < MaxTicks THEN ticks + 1 ELSE ticks
    /\ Schedule(current_process, ticks')
    /\ UNCHANGED << procvars, next, process_list, next_pid, scheduler_lock,
                    pc, tmp, arg, newp,
                    status_arg, sysvars >>

\* scheduler_yield()
Yield(p) ==
    /\ Executes(p) /\ pc[p] = "run"
    /\ Schedule(p, ticks)
    /\ UNCHANGED << procvars, next, process_list, next_pid, scheduler_lock,
                    ticks, pc, tmp, arg, newp,
                    status_arg, sysvars >>

\* ---- scheduler_sleep ----

\* Lines 306-311, interrupts disabled: wake_time and state are set together.
SleepCall(p, t) ==
    /\ Executes(p) /\ pc[p] = "run"
    /\ ticks + t <= MaxTicks
    /\ wake_time' = [wake_time EXCEPT ![p] = ticks + t]
    /\ state' = [state EXCEPT ![p] = PROCESS_SLEEPING]
    /\ pc' = [pc EXCEPT ![p] = "sl_sched"]
    /\ last' = NoEvent
    /\ UNCHANGED << pid, parent_pid, exit_status, wait_for_pid, next,
                    current_process, process_list, next_pid, scheduler_lock,
                    ticks, tmp, arg, newp, halted,
                    status_arg, sysvars >>

\* Line 314: scheduler_schedule(); the call has returned to p when p is current
\* at "sl_ret".
SleepSchedule(p) ==
    /\ Executes(p) /\ pc[p] = "sl_sched"
    /\ Schedule(p, ticks)
    /\ pc' = [pc EXCEPT ![p] = "sl_ret"]
    /\ UNCHANGED << procvars, next, process_list, next_pid, scheduler_lock,
                    ticks, tmp, arg, newp,
                    status_arg, sysvars >>

\* Line 315: scheduler_sleep returns to its caller.
SleepReturn(p) ==
    /\ Executes(p) /\ pc[p] = "sl_ret"
    /\ pc' = [pc EXCEPT ![p] = "run"]
    /\ last' = NoEvent
    /\ UNCHANGED << state, procvars, next, current_process, process_list,
                    next_pid, scheduler_lock, ticks, tmp, arg, newp, halted,
                    status_arg, sysvars >>

\* ---- scheduler_sleep_ms ----

TickWordBits == 12   \* width of ms and ticks (64 in the code)

\* Line 322: (ms * freq) / 1000 in the width of ms, and line 323: at least
\* one tick for a nonzero ms.
sleep_ticks(ms, freq) ==
    LET t == ((ms * freq) % (2 ^ TickWordBits)) \div 1000
    IN  IF t = 0 /\ ms > 0 THEN 1 ELSE t

\* Lines 318-325 with lines 304-311 of scheduler_sleep: the ticks are
\* computed from ms and the timer's frequency freq, then wake_time and state
\* are set; scheduler_sleep carries on at line 314.
scheduler_sleep_ms(p, ms, freq) ==
    /\ Executes(p) /\ pc[p] = "run"
    /\ wake_time' = [wake_time EXCEPT ![p] = ticks + sleep_ticks(ms, freq)]
    /\ state' = [state EXCEPT ![p] = PROCESS_SLEEPING]
    /\ pc' = [pc EXCEPT ![p] = "sl_sched"]
    /\ last' = Event("scheduler_sleep_ms", p, sleep_ticks(ms, freq), [ms |-> ms, freq |-> freq])
    /\ UNCHANGED << pid, parent_pid, exit_status, wait_for_pid, next,
                    current_process, process_list, next_pid, scheduler_lock,
                    ticks, tmp, arg, newp, halted,
                    status_arg, sysvars >>


\* ---- process_waitpid ----

\* Lines 277-293: the first list node that is a Zombie with parent_pid equal to
\* the caller's pid and a pid the filter a accepts; NULL if the scan ends
\* without one; FAULT if it runs into a NULL next pointer.
ZombieChild(p, a) ==
    FindFrom(next, process_list, process_list,
             {q \in Slots : /\ parent_pid[q] = pid[p]
                            /\ state[q] = PROCESS_ZOMBIE
                            /\ (a = -1 \/ a = pid[q])})

\* What a return of process_waitpid reports as stored in *status when the
\* status pointer is null: nothing is stored (line 282).
NoStatus == -1

\* A status pointer that is not null and passes validate_user_ptr.
SomeStatusPtr == 1

\* One pass of the while(true) body up to line 293, by task p with filter a
\* and status pointer sp.
WaitpidScan(p, a, sp) ==
    LET z == ZombieChild(p, a)
    IN  /\ IF z = FAULT
           THEN /\ halted' = TRUE
                /\ arg' = [arg EXCEPT ![p] = a]
                /\ status_arg' = [status_arg EXCEPT ![p] = sp]
                /\ last' = Event("fault", 0, 0, 0)
                /\ UNCHANGED << state, pc >>
           ELSE IF z # NULL
           THEN \* lines 282-289: if (status) *status = exit_status,
                \* Zombie -> Blocked, return pid
                /\ state' = [state EXCEPT ![z] = PROCESS_BLOCKED]
                /\ arg' = [arg EXCEPT ![p] = 0]
                /\ status_arg' = [status_arg EXCEPT ![p] = NULL]
                /\ pc' = [pc EXCEPT ![p] = "run"]
                /\ last' = Event("waitpid_ret", p, pid[z],
                                 IF sp # NULL THEN exit_status[z] ELSE NoStatus)
                /\ UNCHANGED halted
           ELSE /\ pc' = [pc EXCEPT ![p] = "wp_state"]
                /\ arg' = [arg EXCEPT ![p] = a]
                /\ status_arg' = [status_arg EXCEPT ![p] = sp]
                /\ last' = NoEvent
                /\ UNCHANGED << state, halted >>
        /\ UNCHANGED << procvars, next, current_process, process_list, next_pid,
                        scheduler_lock, ticks, tmp, newp,
                    sysvars >>

\* process_waitpid(a, &status) is called: the first scan.
WaitpidCall(p, a) ==
    /\ Executes(p) /\ pc[p] = "run"
    /\ WaitpidScan(p, a, SomeStatusPtr)

\* The scan after a wake-up (the loop repeats).
WaitpidRescan(p) ==
    /\ Executes(p) /\ pc[p] = "wp_scan"
    /\ WaitpidScan(p, arg[p], status_arg[p])

\* Line 296: current_process->state = PROCESS_WAITING
WaitpidSetState(p) ==
    /\ Executes(p) /\ pc[p] = "wp_state"
    /\ state' = [state EXCEPT ![p] = PROCESS_WAITING]
    /\ pc' = [pc EXCEPT ![p] = "wp_wfp"]
    /\ last' = NoEvent
    /\ UNCHANGED << procvars, next, current_process, process_list, next_pid,
                    scheduler_lock, ticks, tmp, arg, newp, halted,
                    status_arg, sysvars >>

\* Line 297: current_process->wait_for_pid = (pid == -1) ? 0 : pid
WaitpidSetFilter(p) ==
    /\ Executes(p) /\ pc[p] = "wp_wfp"
    /\ wait_for_pid' = [wait_for_pid EXCEPT ![p] = IF arg[p] = -1 THEN 0 ELSE arg[p]]
    /\ pc' = [pc EXCEPT ![p] = "wp_sched"]
    /\ last' = NoEvent
    /\ UNCHANGED << state, pid, parent_pid, exit_status, wake_time, next,
                    current_process, process_list, next_pid, scheduler_lock,
                    ticks, tmp, arg, newp, halted,
                    status_arg, sysvars >>

\* Line 298: scheduler_schedule(); on return the loop scans again.
WaitpidSchedule(p) ==
    /\ Executes(p) /\ pc[p] = "wp_sched"
    /\ Schedule(p, ticks)
    /\ pc' = [pc EXCEPT ![p] = "wp_scan"]
    /\ UNCHANGED << procvars, next, process_list, next_pid, scheduler_lock,
                    ticks, tmp, arg, newp,
                    status_arg, sysvars >>

\* ---- process_exit ----

\* Line 259: current_process->state = PROCESS_ZOMBIE (s is the parameter status)
ExitCall(p, s) ==
    /\ Executes(p) /\ pc[p] = "run"
    /\ state' = [state EXCEPT ![p] = PROCESS_ZOMBIE]
    /\ arg' = [arg EXCEPT ![p] = s]
    /\ pc' = [pc EXCEPT ![p] = "ex_status"]
    /\ last' = NoEvent
    /\ UNCHANGED << procvars, next, current_process, process_list, next_pid,
                    scheduler_lock, ticks, tmp, newp, halted,
                    status_arg, sysvars >>

\* Line 260: current_process->exit_status = status
ExitStatus(p) ==
    /\ Executes(p) /\ pc[p] = "ex_status"
    /\ exit_status' = [exit_status EXCEPT ![p] = arg[p]]
    /\ pc' = [pc EXCEPT ![p] = "ex_wake"]
    /\ last' = NoEvent
    /\ UNCHANGED << state, pid, parent_pid, wait_for_pid, wake_time, next,
                    current_process, process_list, next_pid, scheduler_lock,
                    ticks, tmp, arg, newp, halted,
                    status_arg, sysvars >>

\* An exit that wakes a Waiting parent whatever pid it waits for.
WokenByIgnoringFilter(p) ==
    LET parent == process_find_by_pid(parent_pid[p])
    IN  IF parent \notin {NULL, FAULT} /\ state[parent] = PROCESS_WAITING
        THEN {parent} ELSE {}

\* The process the exit of p wakes: lines 263-268.
WokenBy(p) ==
    LET parent == process_find_by_pid(parent_pid[p])
    IN  IF /\ parent \notin {NULL, FAULT}
           /\ state[parent] = PROCESS_WAITING
           /\ (wait_for_pid[parent] = 0 \/ wait_for_pid[parent] = pid[p])
        THEN {parent} ELSE {}

\* Lines 263-268: wake the parent if it waits for this child.
ExitWake(p) ==
    /\ Executes(p) /\ pc[p] = "ex_wake"
    /\ IF process_find_by_pid(parent_pid[p]) = FAULT
       THEN /\ halted' = TRUE
            /\ UNCHANGED << state, pc >>
       ELSE /\ state' = [q \in Slots |-> IF q \in WokenBy(p) THEN PROCESS_READY ELSE state[q]]
            /\ pc' = [pc EXCEPT ![p] = "ex_sched"]
            /\ UNCHANGED halted
    /\ last' = NoEvent
    /\ UNCHANGED << procvars, next, current_process, process_list, next_pid,
                    scheduler_lock, ticks, tmp, arg, newp,
                    status_arg, sysvars >>

\* Line 270: scheduler_schedule(); if it returns, line 271 for(;;) spins.
ExitSchedule(p) ==
    /\ Executes(p) /\ pc[p] = "ex_sched"
    /\ Schedule(p, ticks)
    /\ pc' = [pc EXCEPT ![p] = "ex_spin"]
    /\ UNCHANGED << procvars, next, process_list, next_pid, scheduler_lock,
                    ticks, tmp, arg, newp,
                    status_arg, sysvars >>


\* ---- scheduler_create_task and process_fork ----

\* spinlock.h is not part of the sources at hand: the lock is a test-and-set
\* flag that a task spins on, and taking it does not mask interrupts (the
\* scheduler masks them itself with interrupts_save_disable where it wants to).
spinlock_acquire == scheduler_lock = 0 /\ scheduler_lock' = 1

spinlock_release == scheduler_lock' = 0

\* malloc hands out the lowest free slot; the heap holds cap records.
HeapFull(cap) == Cardinality({q \in Slots : state[q] # PROCESS_FREE}) >= cap

NewSlot == CHOOSE q \in Slots : state[q] = PROCESS_FREE /\ \A r \in Slots : r < q => state[r] # PROCESS_FREE

\* stack_base of a record: the idle task has none (scheduler_init line 56).
stack_base(p) == IF p = 1 THEN NULL ELSE p

\* The zeroed record after lines 83-88 / 209-212: pid from the loaded counter,
\* parent_pid, state Ready, exit_status 0, wait_for_pid 0, next NULL.
InitRecord(n, id, parent) ==
    /\ state' = [state EXCEPT ![n] = PROCESS_READY]
    /\ pid' = [pid EXCEPT ![n] = id]
    /\ parent_pid' = [parent_pid EXCEPT ![n] = parent]
    /\ exit_status' = [exit_status EXCEPT ![n] = 0]
    /\ wait_for_pid' = [wait_for_pid EXCEPT ![n] = 0]
    /\ wake_time' = [wake_time EXCEPT ![n] = 0]

\* A link step that hangs the new record behind the head instead of the tail.
LinkBehindHead(n) == [next EXCEPT ![process_list] = n]

\* Lines 121-125 / 244-248: find the tail and point it at the new record.
LinkTail(n) == [next EXCEPT ![LastFrom(next, process_list)] = n]

\* Lines 126 / 249: the new record points back at the head.
LinkHead(n) == [next EXCEPT ![n] = process_list]

\* Line 73 malloc, and the load of next_pid for line 83 (next_pid++ is a load
\* and a store; nothing keeps the timer IRQ from arriving between them).
CreateTaskBegin(p, ok, cap) ==
    /\ Executes(p) /\ pc[p] = "run"
    /\ next_pid < cap
    /\ IF ok
       THEN /\ tmp' = [tmp EXCEPT ![p] = next_pid]
            /\ pc' = [pc EXCEPT ![p] = "ct_pid"]
            /\ last' = NoEvent
       ELSE /\ last' = NoEvent
            /\ UNCHANGED << tmp, pc >>
    /\ UNCHANGED << state, procvars, next, current_process, process_list,
                    next_pid, scheduler_lock, ticks, arg, newp, halted,
                    status_arg, sysvars >>

\* Lines 83-117: store next_pid, fill the record, malloc the stack (ok or not).
CreateTaskInit(p, ok, cap) ==
    /\ Executes(p) /\ pc[p] = "ct_pid"
    /\ next_pid' = tmp[p] + 1
    /\ IF ok /\ ~HeapFull(cap)
       THEN /\ InitRecord(NewSlot, tmp[p], pid[p])
            /\ newp' = [newp EXCEPT ![p] = NewSlot]
            /\ pc' = [pc EXCEPT ![p] = "ct_link"]
            /\ last' = NoEvent
       ELSE /\ pc' = [pc EXCEPT ![p] = "run"]
            /\ last' = NoEvent
            /\ UNCHANGED << state, procvars, newp >>
    /\ tmp' = [tmp EXCEPT ![p] = 0]
    /\ UNCHANGED << next, current_process, process_list, scheduler_lock,
                    ticks, arg, halted,
                    status_arg, sysvars >>

\* Lines 120-125: spinlock_acquire, walk to the tail, last->next = new_process.
CreateTaskLinkTail(p) ==
    /\ Executes(p) /\ pc[p] = "ct_link"
    /\ spinlock_acquire
    /\ next' = LinkTail(newp[p])
    /\ pc' = [pc EXCEPT ![p] = "ct_head"]
    /\ last' = NoEvent
    /\ UNCHANGED << state, procvars, current_process, process_list, next_pid,
                    ticks, tmp, arg, newp, halted,
                    status_arg, sysvars >>

\* Lines 126-129: new_process->next = process_list, spinlock_release, return.
CreateTaskLinkHead(p) ==
    /\ Executes(p) /\ pc[p] = "ct_head"
    /\ next' = LinkHead(newp[p])
    /\ spinlock_release
    /\ pc' = [pc EXCEPT ![p] = "run"]
    /\ last' = NoEvent
    /\ newp' = [newp EXCEPT ![p] = NULL]
    /\ UNCHANGED << state, procvars, current_process, process_list, next_pid,
                    ticks, tmp, arg, halted,
                    status_arg, sysvars >>

\* Lines 198-206: malloc the child (ok or not), spinlock_acquire, load next_pid.
ForkBegin(p, ok, cap) ==
    /\ Executes(p) /\ pc[p] = "run"
    /\ next_pid < cap
    /\ IF ok
       THEN /\ spinlock_acquire
            /\ tmp' = [tmp EXCEPT ![p] = next_pid]
            /\ pc' = [pc EXCEPT ![p] = "fk_pid"]
            /\ last' = NoEvent
       ELSE /\ last' = Event("fork_ret", p, -1, 0)
            /\ UNCHANGED << tmp, pc, scheduler_lock >>
    /\ UNCHANGED << state, procvars, next, current_process, process_list,
                    next_pid, ticks, arg, newp, halted,
                    status_arg, sysvars >>

\* Lines 206-240: store next_pid, spinlock_release, fill the child, malloc its
\* stack (ok or not) and copy the parent's stack into it.  The idle task has
\* stack_base = nullptr, so its fork reads 16 KiB from address 0: the copy
\* either faults (page 0 unmapped) or goes through.
ForkInit(p, ok, faults, cap) ==
    /\ Executes(p) /\ pc[p] = "fk_pid"
    /\ next_pid' = tmp[p] + 1
    /\ spinlock_release
    /\ IF ok /\ ~HeapFull(cap)
       THEN /\ InitRecord(NewSlot, tmp[p], pid[p])
            /\ newp' = [newp EXCEPT ![p] = NewSlot]
            /\ halted' = (stack_base(p) = NULL /\ faults)
            /\ pc' = [pc EXCEPT ![p] = "fk_link"]
            /\ last' = IF halted' THEN Event("fault", 0, 0, 0) ELSE NoEvent
       ELSE /\ pc' = [pc EXCEPT ![p] = "run"]
            /\ last' = Event("fork_ret", p, -1, 0)
            /\ UNCHANGED << state, procvars, newp, halted >>
    /\ tmp' = [tmp EXCEPT ![p] = 0]
    /\ UNCHANGED << next, current_process, process_list, ticks, arg,
                    status_arg, sysvars >>

\* Lines 243-248: spinlock_acquire, walk to the tail, last->next = child.
ForkLinkTail(p) ==
    /\ Executes(p) /\ pc[p] = "fk_link"
    /\ spinlock_acquire
    /\ next' = LinkTail(newp[p])
    /\ pc' = [pc EXCEPT ![p] = "fk_head"]
    /\ last' = NoEvent
    /\ UNCHANGED << state, procvars, current_process, process_list, next_pid,
                    ticks, tmp, arg, newp, halted,
                    status_arg, sysvars >>

\* Lines 249-253: child->next = process_list, spinlock_release, return child->pid.
ForkLinkHead(p) ==
    /\ Executes(p) /\ pc[p] = "fk_head"
    /\ next' = LinkHead(newp[p])
    /\ spinlock_release
    /\ pc' = [pc EXCEPT ![p] = "run"]
    /\ last' = Event("fork_ret", p, pid[newp[p]], 0)
    /\ newp' = [newp EXCEPT ![p] = NULL]
    /\ UNCHANGED << state, procvars, current_process, process_list, next_pid,
                    ticks, tmp, arg, halted,
                    status_arg, sysvars >>

\* Everything the scheduler owns, except the history variable last.
schedvars == << state, procvars, next, current_process, process_list, next_pid,
                scheduler_lock, ticks, pc, tmp, arg, newp, halted, status_arg >>

\* ---- user pointers (src/kernel/core/syscall.cpp) ----

\* uint64_t arithmetic is modulo 2^WordBits.
Word == 2 ^ WordBits

USER_SPACE_MAX == 2 ^ UserBits

\* (uint64_t)-1 and (size_t)-1, the error value of the syscall layer.
SYS_ERR == -1

\* A validation that lets a region end one byte into kernel space.
validate_user_ptr_end_inclusive(addr, size) ==
    IF addr = 0 THEN FALSE
    ELSE IF addr >= USER_SPACE_MAX THEN FALSE
    ELSE IF size > 0
    THEN LET end == (addr + size - 1) % Word
         IN  IF end < addr THEN FALSE
             ELSE IF end > USER_SPACE_MAX THEN FALSE
             ELSE TRUE
    ELSE TRUE

\* validate_user_ptr(ptr, size), lines 24-41.
validate_user_ptr(addr, size) ==
    IF addr = 0 THEN FALSE
    ELSE IF addr >= USER_SPACE_MAX THEN FALSE
    ELSE IF size > 0
    THEN LET end == (addr + size - 1) % Word
         IN  IF end < addr THEN FALSE
             ELSE IF end >= USER_SPACE_MAX THEN FALSE
             ELSE TRUE
    ELSE TRUE

RECURSIVE user_string_walk(_, _, _, _)
\* The loop of validate_user_string (lines 53-56) from index i: s is the
\* string in user memory at str (its NUL is the byte after the last of s).
user_string_walk(str, s, i, max_len) ==
    IF i >= max_len THEN SYS_ERR
    ELSE IF ~validate_user_ptr((str + i) % Word, 1) THEN SYS_ERR
    ELSE IF i = Len(s) THEN i
    ELSE user_string_walk(str, s, i + 1, max_len)

\* validate_user_string(str, max_len), lines 49-60.
validate_user_string(str, s, max_len) ==
    IF ~validate_user_ptr(str, 1) THEN SYS_ERR
    ELSE user_string_walk(str, s, 0, max_len)

\* ---- the flat file system as the syscall layer sees it ----

\* The mounted image: two entries, each a name, a size and its bytes.
entries ==
    << [name |-> <<1>>, size |-> 2, bytes |-> <<10, 11>>],
       [name |-> <<1, 2>>, size |-> 1, bytes |-> <<12>>] >>

\* find_entry (unifs.cpp lines 21-30): the first entry with that name, or NULL.
find_entry(s) ==
    IF \E i \in 1 .. Len(entries) : entries[i].name = s
    THEN CHOOSE i \in 1 .. Len(entries) :
             /\ entries[i].name = s
             /\ \A j \in 1 .. i - 1 : entries[j].name # s
    ELSE NULL

\* unifs_open_into(name, &file): the handle of the entry found, as unifs_open
\* fills it (name and data are pointers into the image: the entry's index),
\* and ok for the value returned.
unifs_open_into(s) ==
    LET e == find_entry(s)
    IN  IF e = NULL THEN [ok |-> FALSE, name |-> NULL, size |-> 0, data |-> NULL]
        ELSE [ok |-> TRUE, name |-> e, size |-> entries[e].size, data |-> e]

\* The byte data[k] of the file whose data pointer is d (k from 0); what lies
\* behind the file in the image is some other byte.
BeyondFile == 255

ByteAt(d, k) ==
    IF d # NULL /\ k < Len(entries[d].bytes) THEN entries[d].bytes[k + 1] ELSE BeyondFile

\* ---- the FD table ----

\* The slots of the table: 0, 1, 2 and MAX_OPEN_FILES - 3 file slots.
MAX_OPEN_FILES == 5

STDIN_FD == 0

STDOUT_FD == 1

STDERR_FD == 2

FdRange == 0 .. MAX_OPEN_FILES - 1

\* A FileDescriptor in static storage before anything wrote to it.
ZeroFd == [in_use |-> FALSE, filename |-> NULL, position |-> 0, size |-> 0, data |-> NULL]

\* init_fd_table(), lines 69-79, applied to table t.
init_fd_table(t, initialized) ==
    IF initialized THEN t
    ELSE [i \in FdRange |-> [t[i] EXCEPT !.in_use = (i \in {0, 1, 2})]]

\* A scan for a free slot that returns the highest one.
find_free_fd_highest(t) ==
    IF \E i \in 3 .. MAX_OPEN_FILES - 1 : ~t[i].in_use
    THEN CHOOSE i \in 3 .. MAX_OPEN_FILES - 1 :
             /\ ~t[i].in_use
             /\ \A j \in i + 1 .. MAX_OPEN_FILES - 1 : t[j].in_use
    ELSE -1

\* find_free_fd(), lines 81-86.
find_free_fd(t) ==
    IF \E i \in 3 .. MAX_OPEN_FILES - 1 : ~t[i].in_use
    THEN CHOOSE i \in 3 .. MAX_OPEN_FILES - 1 :
             /\ ~t[i].in_use
             /\ \A j \in 3 .. i - 1 : t[j].in_use
    ELSE -1

\* An open that leaves the cursor of the slot where the last user left it.
OpenedSlotStaleCursor(old, file) ==
    [in_use |-> TRUE, filename |-> file.name, position |-> old.position,
     size |-> file.size, data |-> file.data]

\* Lines 127-131: the slot as sys_open fills it.
OpenedSlot(old, file) ==
    [in_use |-> TRUE, filename |-> file.name, position |-> 0,
     size |-> file.size, data |-> file.data]

\* sys_open(filename), lines 109-134, on table t: the return value and the
\* table afterwards.  s is the string at the user address str.
sys_open(t, initialized, str, s) ==
    IF validate_user_string(str, s, MaxString) = SYS_ERR
    THEN [ret |-> SYS_ERR, table |-> t, init |-> initialized]
    ELSE LET t1 == init_fd_table(t, initialized)
             file == unifs_open_into(s)
             fd == find_free_fd(t1)
         IN  IF ~file.ok THEN [ret |-> SYS_ERR, table |-> t1, init |-> TRUE]
             ELSE IF fd < 0 THEN [ret |-> SYS_ERR, table |-> t1, init |-> TRUE]
             ELSE [ret |-> fd,
                   table |-> [t1 EXCEPT ![fd] = OpenedSlot(t1[fd], file)],
                   init |-> TRUE]

\* A read length that is not clamped to what is left of the file.
to_read_unclamped(f, count) == count

\* Lines 155-156: remaining = size - position; to_read = min(count, remaining).
to_read(f, count) ==
    LET remaining == (f.size - f.position) % Word
    IN  IF count < remaining THEN count ELSE remaining

\* A check of the fd that lets a slot that is not in use through.
ReadRejectsOutOfRange(t, fd) == fd < 0 \/ fd >= MAX_OPEN_FILES

\* Line 145: the fd is out of range or its slot is not in use.
ReadRejects(t, fd) == fd < 0 \/ fd >= MAX_OPEN_FILES \/ ~t[fd].in_use

\* sys_read(fd, buf, count), lines 137-164: the return value, the table
\* afterwards and the bytes stored at buf.
sys_read(t, initialized, fd, buf, count) ==
    IF count > 0 /\ ~validate_user_ptr(buf, count)
    THEN [ret |-> SYS_ERR, table |-> t, init |-> initialized, out |-> << >>]
    ELSE LET t1 == init_fd_table(t, initialized)
         IN  IF ReadRejects(t1, fd)
             THEN [ret |-> SYS_ERR, table |-> t1, init |-> TRUE, out |-> << >>]
             ELSE IF fd = STDIN_FD
             THEN [ret |-> 0, table |-> t1, init |-> TRUE, out |-> << >>]
             ELSE LET f == t1[fd]
                      n == to_read(f, count)
                  IN  [ret |-> n,
                       table |-> [t1 EXCEPT ![fd].position = (f.position + n) % Word],
                       init |-> TRUE,
                       out |-> [i \in 1 .. n |-> ByteAt(f.data, f.position + i - 1)]]

NEWLINE == 10

RECURSIVE draw(_, _, _)
\* The loop of sys_write, lines 174-182, over the bytes it renders: the
\* screen cursor afterwards.
draw(x, y, text) ==
    IF text = << >> THEN << x, y >>
    ELSE IF Head(text) = NEWLINE THEN draw(50, y + 10, Tail(text))
    ELSE draw(x + 9, y, Tail(text))

\* A test of the fd that takes stdin for a screen too.
IsScreenFdOrStdin(fd) == fd = STDIN_FD \/ fd = STDOUT_FD \/ fd = STDERR_FD

\* Line 173: fd == STDOUT_FD || fd == STDERR_FD
IsScreenFd(fd) == fd = STDOUT_FD \/ fd = STDERR_FD

\* sys_write(fd, buf, count), lines 167-186: the return value and the screen
\* cursor afterwards.  text holds the bytes at buf before the first NUL (at
\* most count of them): those the loop renders.
sys_write(x, y, fd, buf, count, text) ==
    IF count > 0 /\ ~validate_user_ptr(buf, count)
    THEN [ret |-> SYS_ERR, cursor |-> << x, y >>]
    ELSE IF IsScreenFd(fd)
    THEN [ret |-> count, cursor |-> draw(x, y, text)]
    ELSE [ret |-> SYS_ERR, cursor |-> << x, y >>]

\* A close that does not protect the reserved slots.
CloseRejectsUnused(t, fd) == fd < 0 \/ fd >= MAX_OPEN_FILES \/ ~t[fd].in_use

\* Lines 192-193: fd < 3, fd >= MAX_OPEN_FILES, or the slot is not in use.
CloseRejects(t, fd) == fd < 3 \/ fd >= MAX_OPEN_FILES \/ ~t[fd].in_use

\* sys_close(fd), lines 189-197.
sys_close(t, initialized, fd) ==
    LET t1 == init_fd_table(t, initialized)
    IN  IF CloseRejects(t1, fd)
        THEN [ret |-> SYS_ERR, table |-> t1, init |-> TRUE]
        ELSE [ret |-> 0, table |-> [t1 EXCEPT ![fd].in_use = FALSE], init |-> TRUE]

\* ---- the keyboard ring (src/kernel/drivers/usb/usb_hid.cpp) ----

\* The ring has 256 slots in the code (line 14); the indices wrap at its size.
KB_BUFFER_SIZE == 4

KbChars == {1, 2}

\* A push that stores the character even when the ring is full.
KbFullNever == FALSE

\* Lines 106-107: the ring is full when the slot after end is start.
KbFull == (kb_buffer_end + 1) % KB_BUFFER_SIZE = kb_buffer_start

\* kb_buffer_push(c), lines 105-111; kb_fifo keeps what was stored.
kb_buffer_push(c) ==
    /\ ~halted
    /\ IF ~KbFull
       THEN /\ kb_buffer' = [kb_buffer EXCEPT ![kb_buffer_end] = c]
            /\ kb_buffer_end' = (kb_buffer_end + 1) % KB_BUFFER_SIZE
            /\ kb_fifo' = Append(kb_fifo, c)
            /\ last' = Event("kb_push", 0, c, 1)
       ELSE /\ last' = Event("kb_push", 0, c, 0)
            /\ UNCHANGED << kb_buffer, kb_buffer_end, kb_fifo >>
    /\ UNCHANGED << kb_buffer_start, schedvars, fdvars, devvars >>

\* usb_hid_keyboard_get_char(), lines 480-487; last.st tells whether the
\* character came out of the ring.
usb_hid_keyboard_get_char ==
    /\ ~halted
    /\ IF kb_buffer_start = kb_buffer_end
       THEN /\ last' = Event("get_char", 0, 0, 0)
            /\ UNCHANGED << kb_buffer_start, kb_fifo >>
       ELSE /\ last' = Event("get_char", 0, kb_buffer[kb_buffer_start], 1)
            /\ kb_buffer_start' = (kb_buffer_start + 1) % KB_BUFFER_SIZE
            /\ kb_fifo' = IF kb_fifo = << >> THEN << >> ELSE Tail(kb_fifo)
    /\ UNCHANGED << kb_buffer, kb_buffer_end, schedvars, fdvars, devvars >>

\* A test that forgets that the ring wraps.
has_char_below_end == kb_buffer_start < kb_buffer_end

\* usb_hid_keyboard_has_char(), lines 476-478.
usb_hid_keyboard_has_char == kb_buffer_start # kb_buffer_end


\* ---- syscall_handler (lines 202-242) ----

\* The arguments the model passes: pointers at both ends of user space and of
\* the kernel half, counts, fds inside and outside the table, strings.
PtrArgs == {0, 1, USER_SPACE_MAX - 1, USER_SPACE_MAX, Word - USER_SPACE_MAX}

CountArgs == {0, 1, 2, Word - 1}

FdArgs == -1 .. MAX_OPEN_FILES

Names == { << >>, <<1>>, <<2>>, <<1, 2>>, <<1, 2, 1>> }

\* The byte strings a write renders: those of at most c bytes.
Texts(c) == UNION {[1 .. n -> {97, NEWLINE}] : n \in 0 .. (IF c < MaxDraw THEN c ELSE MaxDraw)}

\* The screen cursor stays within MaxDraw characters and lines of its origin.
InScreen(c) == c[1] <= 50 + 9 * MaxDraw /\ c[2] <= 480 + 10 * MaxDraw

\* case SYS_READ: sys_read((int)arg1, (char*)arg2, arg3)
SysRead(p, fd, buf, count) ==
    /\ Executes(p) /\ pc[p] = "run"
    /\ LET r == sys_read(fd_table, fd_initialized, fd, buf, count)
       IN  /\ fd_table' = r.table
           /\ fd_initialized' = r.init
           /\ last' = Event("read_ret", p, r.ret, r.out)
    /\ UNCHANGED << sys_cursor_x, sys_cursor_y, schedvars, kbvars, devvars >>

\* case SYS_WRITE: sys_write((int)arg1, (const char*)arg2, arg3)
SysWrite(p, fd, buf, count, text) ==
    /\ Executes(p) /\ pc[p] = "run"
    /\ Len(text) <= count
    /\ LET r == sys_write(sys_cursor_x, sys_cursor_y, fd, buf, count, text)
       IN  /\ InScreen(r.cursor)
           /\ sys_cursor_x' = r.cursor[1]
           /\ sys_cursor_y' = r.cursor[2]
           /\ last' = Event("write_ret", p, r.ret, fd)
    /\ UNCHANGED << fd_table, fd_initialized, schedvars, kbvars, devvars >>

\* case SYS_OPEN: sys_open((const char*)arg1); s is the string at arg1
SysOpen(p, str, s) ==
    /\ Executes(p) /\ pc[p] = "run"
    /\ LET r == sys_open(fd_table, fd_initialized, str, s)
       IN  /\ fd_table' = r.table
           /\ fd_initialized' = r.init
           /\ last' = Event("open_ret", p, r.ret, 0)
    /\ UNCHANGED << sys_cursor_x, sys_cursor_y, schedvars, kbvars, devvars >>

\* case SYS_CLOSE: sys_close((int)arg1)
SysClose(p, fd) ==
    /\ Executes(p) /\ pc[p] = "run"
    /\ LET r == sys_close(fd_table, fd_initialized, fd)
       IN  /\ fd_table' = r.table
           /\ fd_initialized' = r.init
           /\ last' = Event("close_ret", p, r.ret, fd)
    /\ UNCHANGED << sys_cursor_x, sys_cursor_y, schedvars, kbvars, devvars >>

SIZEOF_INT32 == 4

\* A WAIT4 that passes every status pointer on to process_waitpid.
Wait4RejectsNothing(sp) == FALSE

\* Line 232: arg2 != 0 && !validate_user_ptr((void*)arg2, sizeof(int32_t))
Wait4Rejects(sp) == sp # 0 /\ ~validate_user_ptr(sp, SIZEOF_INT32)

\* case SYS_WAIT4, lines 230-237: reject a bad status pointer, else
\* process_waitpid((int64_t)arg1, (int32_t*)arg2) and its first scan.
SysWait4(p, a, sp) ==
    /\ Executes(p) /\ pc[p] = "run"
    /\ IF Wait4Rejects(sp)
       THEN /\ last' = Event("wait4_ret", p, SYS_ERR, NoStatus)
            /\ UNCHANGED << schedvars, sysvars >>
       ELSE WaitpidScan(p, a, sp)

\* The state of the syscall layer and the keyboard ring at boot: static
\* storage is zeroed, the cursor has its initializers (lines 62-63).
InitSys ==
    /\ fd_table = [i \in FdRange |-> ZeroFd]
    /\ fd_initialized = FALSE
    /\ sys_cursor_x = 50
    /\ sys_cursor_y = 480
    /\ kb_buffer = [i \in 0 .. KB_BUFFER_SIZE - 1 |-> 0]
    /\ kb_buffer_start = 0
    /\ kb_buffer_end = 0
    /\ kb_fifo = << >>

\* ---- the HID keyboard (src/kernel/drivers/usb/usb_hid.cpp) ----

\* The ring as a value: what kb_buffer_push works on.
KbRing == [buffer |-> kb_buffer, start |-> kb_buffer_start, end |-> kb_buffer_end,
           fifo |-> kb_fifo]

\* kb_buffer_push(c), lines 105-111, on the ring r.
RingPush(r, c) ==
    IF (r.end + 1) % KB_BUFFER_SIZE # r.start
    THEN [r EXCEPT !.buffer[r.end] = c,
                   !.end = (r.end + 1) % KB_BUFFER_SIZE,
                   !.fifo = Append(r.fifo, c)]
    ELSE r

KEY_SHIFT_LEFT == 144

KEY_SHIFT_RIGHT == 145

\* The key codes the model presses: a, b, [, CapsLock (no character), Right,
\* Left, and a code outside the tables.
KEY_A == 4
KEY_B == 5
KEY_LBRACKET == 47
KEY_CAPSLOCK == 57
KEY_RIGHT == 79
KEY_LEFT == 80
KEY_BEYOND == 200

\* hid_to_ascii[keycode], lines 55-72, at those codes.
hid_to_ascii(keycode) ==
    CASE keycode = KEY_A -> 97
      [] keycode = KEY_B -> 98
      [] keycode = KEY_LBRACKET -> 91
      [] keycode = KEY_CAPSLOCK -> 0
      [] keycode = KEY_RIGHT -> 131
      [] keycode = KEY_LEFT -> 130
      [] keycode = 0 -> 0

\* hid_to_ascii_shift[keycode], lines 75-92, at those codes.
hid_to_ascii_shift(keycode) ==
    CASE keycode = KEY_A -> 65
      [] keycode = KEY_B -> 66
      [] keycode = KEY_LBRACKET -> 123
      [] keycode = KEY_CAPSLOCK -> 0
      [] keycode = KEY_RIGHT -> 0
      [] keycode = KEY_LEFT -> 0
      [] keycode = 0 -> 0

\* The modifier byte: which of the shift and ctrl bits are set (lines 148-149).
HasShift(report) == "shift" \in report.modifiers

HasCtrl(report) == "ctrl" \in report.modifiers

\* A test for a new press that looks at the first slot of the previous
\* report only.
key_was_pressed_first_slot(prev, keycode) == prev.keys[1] = keycode

\* key_was_pressed(keycode), lines 95-102, with last_keyboard_report = prev.
key_was_pressed(prev, keycode) ==
    \E i \in 1 .. ReportKeys : prev.keys[i] = keycode

\* Lines 169-214: the character a new press of keycode pushes (0: none).
PressChar(shift, ctrl, keycode) ==
    IF shift /\ keycode = KEY_LEFT THEN KEY_SHIFT_LEFT
    ELSE IF shift /\ keycode = KEY_RIGHT THEN KEY_SHIFT_RIGHT
    ELSE LET c == IF shift THEN hid_to_ascii_shift(keycode) ELSE hid_to_ascii(keycode)
         IN  IF ctrl /\ c # 0 /\ c >= 97 /\ c <= 122 THEN c - 97 + 1
             ELSE IF ctrl /\ c # 0 /\ c >= 65 /\ c <= 90 THEN c - 65 + 1
             ELSE IF ctrl /\ c \in {91, 123} THEN 27
             ELSE IF ctrl /\ c \in {92, 124} THEN 28
             ELSE IF ctrl /\ c \in {93, 125} THEN 29
             ELSE c

\* Lines 169-220: whether a new press of keycode starts the repeat timer (the
\* shift+arrow and Ctrl+[ \ ] paths continue before it).
PressStartsRepeat(shift, ctrl, keycode) ==
    IF shift /\ keycode \in {KEY_LEFT, KEY_RIGHT} THEN FALSE
    ELSE LET c == IF shift THEN hid_to_ascii_shift(keycode) ELSE hid_to_ascii(keycode)
         IN  ~(ctrl /\ c \in {91, 123, 92, 124, 93, 125})

\* The keyboard state process_keyboard_report and handle_key_repeat work on.
KbState == [ring |-> KbRing, last_report |-> last_keyboard_report,
            repeat_keycode |-> repeat_keycode, repeat_shift |-> repeat_shift,
            repeat_start_tick |-> repeat_start_tick,
            repeat_last_tick |-> repeat_last_tick,
            pressed |-> 0, press_key |-> 0, repeated |-> 0,
            start_char |-> hid_log.start_char]

RECURSIVE process_keys(_, _, _, _)
\* The loop of lines 161-222 from slot i; k.pressed counts the calls of
\* kb_buffer_push it makes and k.press_key is the key code of the latest.
process_keys(k, report, i, now) ==
    IF i > ReportKeys THEN k
    ELSE LET keycode == report.keys[i]
             shift == HasShift(report)
             ctrl == HasCtrl(report)
         IN  IF keycode = 0 \/ keycode >= 128
                \/ key_was_pressed(k.last_report, keycode)
             THEN process_keys(k, report, i + 1, now)
             ELSE LET c == PressChar(shift, ctrl, keycode)
                      k1 == IF c # 0
                            THEN [k EXCEPT !.ring = RingPush(k.ring, c),
                                           !.pressed = k.pressed + 1,
                                           !.press_key = keycode]
                            ELSE k
                      k2 == IF PressStartsRepeat(shift, ctrl, keycode)
                            THEN [k1 EXCEPT !.repeat_keycode = keycode,
                                            !.repeat_shift = shift,
                                            !.repeat_start_tick = now,
                                            !.repeat_last_tick = now,
                                            !.start_char = c]
                            ELSE k1
                  IN  process_keys(k2, report, i + 1, now)

\* Lines 151-158: the first key of the report that is held.
current_key(report) ==
    IF \E i \in 1 .. ReportKeys : report.keys[i] # 0 /\ report.keys[i] < 128
    THEN report.keys[CHOOSE i \in 1 .. ReportKeys :
                        /\ report.keys[i] # 0 /\ report.keys[i] < 128
                        /\ \A j \in 1 .. i - 1 :
                              report.keys[j] = 0 \/ report.keys[j] >= 128]
    ELSE 0

\* process_keyboard_report(report), lines 147-236.
process_keyboard_report(k, report, now) ==
    LET k1 == process_keys(k, report, 1, now)
        k2 == IF current_key(report) = 0 THEN [k1 EXCEPT !.repeat_keycode = 0] ELSE k1
    IN  [k2 EXCEPT !.last_report = report]

\* The delay before the first repeat and the ticks between repeats (500 and
\* 33 in the code, lines 118-119).
REPEAT_DELAY_TICKS == 3

REPEAT_RATE_TICKS == 2

\* Lines 126-131: the initial delay has passed and the last repeat is at
\* least REPEAT_RATE_TICKS old.
RepeatDue(k, now) ==
    /\ now - k.repeat_start_tick >= REPEAT_DELAY_TICKS
    /\ now - k.repeat_last_tick >= REPEAT_RATE_TICKS

\* handle_key_repeat(), lines 122-144; k.repeated is the character it pushes.
handle_key_repeat(k, now) ==
    IF k.repeat_keycode = 0 THEN k
    ELSE IF ~RepeatDue(k, now) THEN k
    ELSE LET c == IF k.repeat_shift THEN hid_to_ascii_shift(k.repeat_keycode)
                  ELSE hid_to_ascii(k.repeat_keycode)
             k1 == IF c # 0
                   THEN [k EXCEPT !.ring = RingPush(k.ring, c), !.repeated = c]
                   ELSE k
         IN  [k1 EXCEPT !.repeat_last_tick = now]

\* ---- the HID mouse ----

IntMin == -(2 ^ (IntBits - 1))

IntMax == 2 ^ (IntBits - 1) - 1

\* Lines 31-32 (1024 x 768 in the code).
ScreenDefaultWidth == 2

ScreenDefaultHeight == 1

\* (int8_t)b of a report byte b.
to_int8(b) == IF b >= 2 ^ (ByteBits - 1) THEN b - 2 ^ ByteBits ELSE b

\* Lines 271-273: the button bits of btn (left 1, right 2, middle 4).
MouseButtons(btn) ==
    [left |-> btn % 2 = 1, right |-> (btn \div 2) % 2 = 1, middle |-> (btn \div 4) % 2 = 1]

\* Line 255: a report that starts with a report id.
has_report_id(data, length) == length >= 5 /\ data[1] \in {1, 2}

\* Lines 257-268: the fields of the report.
MouseFields(data, length) ==
    IF has_report_id(data, length)
    THEN [btn |-> data[2], rel_x |-> to_int8(data[3]), rel_y |-> to_int8(data[4]),
          wheel |-> to_int8(data[5])]
    ELSE [btn |-> data[1], rel_x |-> to_int8(data[2]), rel_y |-> to_int8(data[3]),
          wheel |-> IF length >= 4 THEN to_int8(data[4]) ELSE 0]

\* mouse_x += rel_x (lines 276-277) in int32_t: the sum, or any value when it
\* overflows (signed overflow is undefined).
AddInt32(a, d) == IF a + d > IntMax \/ a + d < IntMin THEN IntMin .. IntMax ELSE {a + d}

\* A clamp that lets the position reach the edge itself.
ClampToEdge(v, size) ==
    LET v1 == IF v < 0 THEN 0 ELSE v
    IN  IF v1 > size THEN size ELSE v1

\* Lines 280-283: clamp to the screen.
Clamp(v, size) ==
    LET v1 == IF v < 0 THEN 0 ELSE v
    IN  IF v1 >= size THEN size - 1 ELSE v1

\* mouse_scroll += wheel in int8_t (line 274).
AddInt8(a, d) == to_int8((a + d) % (2 ^ ByteBits))

\* The mouse state process_mouse_report works on.
MouseState == [x |-> mouse_x, y |-> mouse_y, buttons |-> mouse_buttons,
               scroll |-> mouse_scroll, available |-> mouse_available,
               received |-> mouse_data_received]

\* process_mouse_report(raw_buffer, length), lines 239-287; x1 and y1 are the
\* results of the two additions.
process_mouse_report(m, data, length, x1, y1) ==
    IF length < 3 THEN m
    ELSE LET f == MouseFields(data, length)
         IN  [x |-> Clamp(x1, screen_width), y |-> Clamp(y1, screen_height),
              buttons |-> MouseButtons(f.btn),
              scroll |-> AddInt8(m.scroll, f.wheel),
              available |-> TRUE, received |-> TRUE]

\* The sums process_mouse_report may compute for a report.
MouseSumsX(m, data, length) ==
    IF length < 3 THEN {m.x} ELSE AddInt32(m.x, MouseFields(data, length).rel_x)

MouseSumsY(m, data, length) ==
    IF length < 3 THEN {m.y} ELSE AddInt32(m.y, MouseFields(data, length).rel_y)

\* ---- usb_hid_poll ----

\* A device that usb_hid_poll looks at (line 407).
DevActive(dev) == dev.configured /\ dev.slot_id # 0

\* Line 411: the keyboard interval (10 when the device gives none).
kb_interval(dev) == IF dev.hid_interval < 1 THEN 10 ELSE dev.hid_interval

\* Line 413: the keyboard endpoint is due.
KeyboardDue(dev, now, lkp) == now - lkp >= kb_interval(dev)

\* Lines 440-444: the endpoint the mouse is polled on (0: none).
mouse_ep(dev) ==
    IF ~dev.is_mouse THEN 0
    ELSE IF dev.hid_endpoint2 # 0 THEN dev.hid_endpoint2
    ELSE IF ~dev.is_keyboard THEN dev.hid_endpoint
    ELSE 0

RECURSIVE poll_keyboards(_, _, _, _, _)
\* Lines 409-435 for the devices from i on: acc.k is the keyboard state,
\* acc.lkp is last_keyboard_poll, acc.xfer tells whether a transfer was made.
\* kin is what xhci_interrupt_transfer returns to it.
poll_keyboards(acc, devs, i, now, kin) ==
    IF i > Len(devs) THEN acc
    ELSE LET dev == devs[i]
         IN  IF DevActive(dev) /\ dev.is_keyboard /\ dev.hid_endpoint # 0
                /\ KeyboardDue(dev, now, acc.lkp)
             THEN poll_keyboards(
                      [k |-> IF kin.success /\ kin.transferred >= 3 /\ kin.transferred = 8
                             THEN process_keyboard_report(acc.k, kin.report, now)
                             ELSE acc.k,
                       lkp |-> now, xfer |-> TRUE],
                      devs, i + 1, now, kin)
             ELSE poll_keyboards(acc, devs, i + 1, now, kin)

\* The devices whose mouse endpoint usb_hid_poll transfers on (lines 446-465).
MouseDevs(devs) == {i \in 1 .. Len(devs) : DevActive(devs[i]) /\ mouse_ep(devs[i]) # 0}

\* What a poll leaves in hid_log: the tick, whether it made a keyboard and a
\* mouse transfer, the ticks of the latest transfer before it to either
\* endpoint (-1: none), the length of the mouse report it received (0: none),
\* the number of characters the report pushed, the
\* character the repeat pushed (0: none); the key code and the tick of the
\* latest press that pushed a character, the tick of the latest repeat
\* before this poll, and whether a tick has gone by without a poll since that
\* press; and the character pushed by the press that started the repeat
\* timer (0: none).
NoPoll == [at |-> -1, kb_xfer |-> FALSE, mouse_xfer |-> FALSE, kb_at |-> -1,
           mouse_at |-> -1, mouse_len |-> 0, pressed |-> 0, repeated |-> 0,
           press_key |-> 0, press_at |-> -1, rep_at |-> -1, gap |-> FALSE,
           start_char |-> 0]

\* usb_hid_poll(), lines 399-470.  kin and min are the results of the
\* interrupt transfers, x1 and y1 the sums of process_mouse_report.
usb_hid_poll(kin, min, x1, y1) ==
    /\ ~halted
    /\ Len(usb_devices) > 0
    /\ LET now == timer_ticks
           kp == poll_keyboards([k |-> KbState, lkp |-> last_keyboard_poll,
                                 xfer |-> FALSE], usb_devices, 1, now, kin)
           k == handle_key_repeat(kp.k, now)
           mx == MouseDevs(usb_devices) # {}
           mlen == IF mx /\ min.success THEN min.transferred ELSE 0
           m == process_mouse_report(MouseState, min.data, mlen, x1, y1)
           press == kp.k.pressed > 0
       IN  /\ x1 \in MouseSumsX(MouseState, min.data, mlen)
           /\ y1 \in MouseSumsY(MouseState, min.data, mlen)
           /\ kb_buffer' = k.ring.buffer
           /\ kb_buffer_start' = k.ring.start
           /\ kb_buffer_end' = k.ring.end
           /\ kb_fifo' = k.ring.fifo
           /\ last_keyboard_report' = k.last_report
           /\ repeat_keycode' = k.repeat_keycode
           /\ repeat_shift' = k.repeat_shift
           /\ repeat_start_tick' = k.repeat_start_tick
           /\ repeat_last_tick' = k.repeat_last_tick
           /\ last_keyboard_poll' = kp.lkp
           /\ mouse_x' = m.x
           /\ mouse_y' = m.y
           /\ mouse_buttons' = m.buttons
           /\ mouse_scroll' = m.scroll
           /\ mouse_available' = m.available
           /\ mouse_data_received' = m.received
           /\ hid_log' = [at |-> now, kb_xfer |-> kp.xfer, mouse_xfer |-> mx,
                          kb_at |-> IF hid_log.kb_xfer THEN hid_log.at ELSE hid_log.kb_at,
                          mouse_at |-> IF hid_log.mouse_xfer THEN hid_log.at
                                       ELSE hid_log.mouse_at,
                          mouse_len |-> mlen,
                          pressed |-> kp.k.pressed, repeated |-> k.repeated,
                          press_key |-> IF press THEN kp.k.press_key ELSE hid_log.press_key,
                          press_at |-> IF press THEN now ELSE hid_log.press_at,
                          rep_at |-> IF hid_log.repeated # 0 THEN hid_log.at
                                     ELSE hid_log.rep_at,
                          gap |-> IF press THEN FALSE ELSE hid_log.gap,
                          start_char |-> k.start_char]
           /\ last' = Event("hid_poll", 0, kp.k.pressed, k.repeated)
    /\ UNCHANGED << timer_ticks, usb_devices, screen_width, screen_height,
                    schedvars, fdvars, acpivars, unifsvars, extvars >>

\* A poll with no device enumerated returns at line 401.
usb_hid_poll_no_device ==
    /\ ~halted
    /\ Len(usb_devices) = 0
    /\ last' = Event("hid_poll", 0, 0, 0)
    /\ UNCHANGED << schedvars, sysvars >>

\* The timer interrupt as the HID driver sees it: one more tick.
HidTimerTick ==
    /\ ~halted
    /\ timer_ticks < MaxHidTicks
    /\ timer_ticks' = timer_ticks + 1
    /\ hid_log' = [hid_log EXCEPT !.gap = hid_log.gap \/ hid_log.at # timer_ticks]
    /\ last' = Event("hid_tick", 0, timer_ticks + 1, 0)
    /\ UNCHANGED << usb_devices, last_keyboard_report, repeatvars, last_keyboard_poll,
                    mousevars, schedvars, fdvars, kbvars, acpivars, unifsvars, extvars >>

\* usb_hid_set_screen_size(width, height), lines 503-509.
usb_hid_set_screen_size(width, height) ==
    /\ ~halted
    /\ screen_width' = width
    /\ screen_height' = height
    /\ mouse_x' = width \div 2
    /\ mouse_y' = height \div 2
    /\ last' = Event("set_screen_size", 0, width, height)
    /\ UNCHANGED << timer_ticks, usb_devices, last_keyboard_report, repeatvars,
                    last_keyboard_poll, mouse_buttons, mouse_scroll, mouse_available,
                    mouse_data_received, hid_log, schedvars, fdvars, kbvars, acpivars,
                    unifsvars, extvars >>

\* Static storage of the HID driver at boot (lines 9-36, 114-117).
InitHid ==
    /\ timer_ticks = 0
    /\ last_keyboard_report = [modifiers |-> {}, keys |-> [i \in 1 .. ReportKeys |-> 0]]
    /\ repeat_keycode = 0
    /\ repeat_start_tick = 0
    /\ repeat_last_tick = 0
    /\ repeat_shift = FALSE
    /\ last_keyboard_poll = 0
    /\ mouse_x = 0
    /\ mouse_y = 0
    /\ mouse_buttons = [left |-> FALSE, right |-> FALSE, middle |-> FALSE]
    /\ mouse_scroll = 0
    /\ mouse_available = FALSE
    /\ mouse_data_received = FALSE
    /\ screen_width = ScreenDefaultWidth
    /\ screen_height = ScreenDefaultHeight
    /\ hid_log = NoPoll

\* ---- ACPI: the S5 sleep type and the power-off (src/kernel/acpi.cpp) ----

AML_NAME_OP == 8                \* 0x08
AML_PACKAGE_OP == 18            \* 0x12
AML_BYTE_PREFIX == 10           \* 0x0A
AML_WORD_PREFIX == 11           \* 0x0B
AML_SMALL_INT == 64             \* a byte below it is taken as a small integer
S5Name == << 95, 83, 53, 95 >>  \* "_S5_"
SLP_TYP_SHIFT == 10
SLP_TYP_DEFAULT == 5
ACPI_SLP_EN == 8192             \* 1 << 13
QEMU_SHUTDOWN_PORT == 1540      \* 0x604
QEMU_SHUTDOWN_VALUE == 8192     \* 0x2000
BOCHS_SHUTDOWN_PORT == 45060    \* 0xB004
common_slp_types == << 5, 7, 0, 6 >>

\* x << SLP_TYP_SHIFT stored in a uint16_t.
SlpTyp(x) == (x * 2 ^ SLP_TYP_SHIFT) % 65536

\* v | ACPI_SLP_EN on uint16_t.
WithSlpEn(v) == IF (v \div ACPI_SLP_EN) % 2 = 1 THEN v ELSE v + ACPI_SLP_EN

\* A table is its header, of which the model keeps the sum of the bytes, and
\* the bytes after the header; length is the size of both.  data(d, j) is the
\* byte j places after the header: beyond the table it is whatever memory
\* holds there.
data(d, j) == IF j < Len(d.body) THEN d.body[j + 1] ELSE d.beyond

RECURSIVE SumBytes(_)
SumBytes(b) == IF b = << >> THEN 0 ELSE (Head(b) + SumBytes(Tail(b))) % 256

\* sdt_checksum_valid(), lines 33-40.
sdt_checksum_valid(d) == (d.hsum + SumBytes(d.body)) % 256 = 0

\* Lines 96-98: skip the opcodes 0x08 and 0x12 after the name.
RECURSIVE skip_prefix(_, _)
skip_prefix(d, j) ==
    IF j < Len(d.body) /\ data(d, j) \in {AML_NAME_OP, AML_PACKAGE_OP}
    THEN skip_prefix(d, j + 1)
    ELSE j

\* Lines 103-134: the package whose PackageOp is at j.  typ holds slp_typa
\* and slp_typb as they were.
parse_package(d, j, typ) ==
    LET j1 == j + 1
        j2 == j1 + (data(d, j1) \div 64) + 1
        j3 == j2 + 1
        e == data(d, j3)
        typa == IF e = AML_BYTE_PREFIX THEN SlpTyp(data(d, j3 + 1))
                ELSE IF e = AML_WORD_PREFIX
                     THEN SlpTyp(data(d, j3 + 1) + 256 * data(d, j3 + 2))
                ELSE IF e < AML_SMALL_INT THEN SlpTyp(e)
                ELSE typ.typa
        j4 == IF e = AML_BYTE_PREFIX THEN j3 + 2
              ELSE IF e = AML_WORD_PREFIX THEN j3 + 3
              ELSE IF e < AML_SMALL_INT THEN j3 + 1
              ELSE j3
        f == data(d, j4)
        typb == IF j4 < Len(d.body)
                THEN IF f = AML_BYTE_PREFIX THEN SlpTyp(data(d, j4 + 1))
                     ELSE IF f < AML_SMALL_INT THEN SlpTyp(f)
                     ELSE typ.typb
                ELSE typ.typb
    IN  [found |-> TRUE, typa |-> typa, typb |-> typb]

\* Lines 101-137: look for a PackageOp from j on.
RECURSIVE scan_package(_, _, _)
scan_package(d, j, typ) ==
    IF j < Len(d.body) - 2
    THEN IF data(d, j) = AML_PACKAGE_OP THEN parse_package(d, j, typ)
         ELSE scan_package(d, j + 1, typ)
    ELSE [found |-> FALSE, typa |-> typ.typa, typb |-> typ.typb]

\* Lines 87-139: every place i where the name stands, until a package is parsed.
RECURSIVE scan_name(_, _, _)
scan_name(d, i, typ) ==
    IF i < Len(d.body) - 4
    THEN IF \A n \in 1 .. 4 : data(d, i + n - 1) = S5Name[n]
         THEN LET r == scan_package(d, skip_prefix(d, i + 4), typ)
              IN  IF r.found THEN r ELSE scan_name(d, i + 1, typ)
         ELSE scan_name(d, i + 1, typ)
    ELSE [found |-> FALSE, typa |-> typ.typa, typb |-> typ.typb]

\* find_s5_in_dsdt(), lines 76-146.
find_s5_in_dsdt(d, typ) ==
    IF ~sdt_checksum_valid(d)
    THEN [ret |-> FALSE, typa |-> typ.typa, typb |-> typ.typb]
    ELSE LET r == scan_name(d, 0, typ)
         IN  IF r.found THEN [ret |-> TRUE, typa |-> r.typa, typb |-> r.typb]
             ELSE [ret |-> TRUE, typa |-> SlpTyp(SLP_TYP_DEFAULT),
                   typb |-> SlpTyp(SLP_TYP_DEFAULT)]

\* acpi_init(), lines 148-229, on the tables t: whether an RSDP was found,
\* whether the (X)SDT checksum holds, whether an entry is a FADT, the fields
\* of the FADT, and the DSDT it points to.  What it draws on the screen is
\* not part of the model.
acpi_init(t) ==
    /\ ~halted /\ ~powered_off
    /\ acpi_tables = << >>
    /\ acpi_tables' = << t >>
    /\ IF t.rsdp /\ t.rsdt_ok /\ t.fadt
       THEN LET r == IF t.dsdt_addr # 0
                     THEN find_s5_in_dsdt(t.dsdt, [typa |-> slp_typa, typb |-> slp_typb])
                     ELSE [ret |-> FALSE, typa |-> slp_typa, typb |-> slp_typb]
            IN  /\ pm1a_cnt' = t.pm1a_cnt_blk
                /\ pm1b_cnt' = t.pm1b_cnt_blk
                /\ smi_cmd_port' = t.smi_cmd
                /\ acpi_enable_val' = t.acpi_enable
                /\ slp_typa' = r.typa
                /\ slp_typb' = r.typb
                /\ acpi_available' = TRUE
       ELSE UNCHANGED << pm1a_cnt, pm1b_cnt, smi_cmd_port, acpi_enable_val, slp_typa,
                         slp_typb, acpi_available >>
    /\ last' = Event("acpi_init", 0, 0, 0)
    /\ UNCHANGED << io_log, powered_off, schedvars, fdvars, kbvars, hidvars, unifsvars, extvars >>

Cli == [op |-> "cli", port |-> 0, value |-> 0]
Outb(port, value) == [op |-> "outb", port |-> port, value |-> value]
Outw(port, value) == [op |-> "outw", port |-> port, value |-> value]

\* Lines 281-289: the common sleep types from the i-th on, each written to
\* PM1a_CNT and, if there is one, to PM1b_CNT.
RECURSIVE common_attempts(_)
common_attempts(i) ==
    IF i > Len(common_slp_types) THEN << >>
    ELSE << Outw(pm1a_cnt, WithSlpEn(SlpTyp(common_slp_types[i]))) >>
         \o (IF pm1b_cnt # 0
             THEN << Outw(pm1b_cnt, WithSlpEn(SlpTyp(common_slp_types[i]))) >>
             ELSE << >>)
         \o common_attempts(i + 1)

\* The instructions acpi_poweroff() executes if none switches the machine
\* off, lines 238-298.  sci: the first read of PM1a_CNT has SCI_EN set.
poweroff_steps(sci) ==
    IF ~acpi_available \/ pm1a_cnt = 0
    THEN << Outw(QEMU_SHUTDOWN_PORT, QEMU_SHUTDOWN_VALUE) >>
    ELSE << Cli >>
         \o (IF ~sci /\ smi_cmd_port # 0 /\ acpi_enable_val # 0
             THEN << Outb(smi_cmd_port, acpi_enable_val) >> ELSE << >>)
         \o (IF slp_typa # 0 THEN << Outw(pm1a_cnt, WithSlpEn(slp_typa)) >> ELSE << >>)
         \o common_attempts(1)
         \o << Outw(QEMU_SHUTDOWN_PORT, QEMU_SHUTDOWN_VALUE),
               Outw(BOCHS_SHUTDOWN_PORT, QEMU_SHUTDOWN_VALUE) >>

\* acpi_poweroff(): the machine goes off at the write number stop, or the
\* function runs to its end and returns false (stop = 0).  io_log holds the
\* instructions of this call.
acpi_poweroff(sci, stop) ==
    /\ ~halted /\ ~powered_off
    /\ LET steps == poweroff_steps(sci)
       IN  /\ stop <= Len(steps)
           /\ stop # 0 => steps[stop].op = "outw"
           /\ io_log' = IF stop = 0 THEN steps ELSE SubSeq(steps, 1, stop)
    /\ powered_off' = (stop # 0)
    /\ last' = Event("acpi_poweroff", 0, IF stop = 0 THEN 0 ELSE 1, 0)
    /\ UNCHANGED << acpi_available, pm1a_cnt, pm1b_cnt, slp_typa, slp_typb, smi_cmd_port,
                    acpi_enable_val, acpi_tables, schedvars, fdvars, kbvars, hidvars,
                    unifsvars, extvars >>

\* Static storage of the ACPI driver at boot (lines 7-13).
InitAcpi ==
    /\ acpi_available = FALSE
    /\ pm1a_cnt = 0
    /\ pm1b_cnt = 0
    /\ slp_typa = 0
    /\ slp_typb = 0
    /\ smi_cmd_port = 0
    /\ acpi_enable_val = 0
    /\ io_log = << >>
    /\ acpi_tables = << >>
    /\ powered_off = FALSE

\* ---- the flat file system image (src/kernel/fs/unifs.cpp, unifs.h) ----

UNIFS_NAME_SIZE == 3    \* bytes of UniFSEntry::name (64 in the code)
U64Bytes == 2           \* bytes of a uint64_t field of the image (8 in the code)
UNIFS_MAGIC == << 85, 78, 73, 70, 83, 32, 118, 49 >>    \* "UNIFS v1"

\* sizeof(UniFSHeader) and sizeof(UniFSEntry), both packed.
HeaderSize == Len(UNIFS_MAGIC) + U64Bytes
EntrySize == UNIFS_NAME_SIZE + 2 * U64Bytes

\* The byte at fs_start + k; past the image it is some other byte.
ImageByte(img, k) == IF k < Len(img) THEN img[k + 1] ELSE BeyondFile

\* A little-endian uint64_t field read at fs_start + k.
RECURSIVE ReadU64(_, _, _)
ReadU64(img, k, n) ==
    IF n = 0 THEN 0 ELSE ImageByte(img, k) + 256 * ReadU64(img, k + 1, n - 1)

\* The string kstring::strcmp reads at fs_start + k: the bytes up to the
\* first NUL.
cstr_first_byte(img, k) ==
    IF k >= Len(img) \/ ImageByte(img, k) = 0 THEN << >> ELSE << ImageByte(img, k) >>

RECURSIVE cstr(_, _)
cstr(img, k) ==
    IF k >= Len(img) \/ ImageByte(img, k) = 0 THEN << >>
    ELSE << ImageByte(img, k) >> \o cstr(img, k + 1)

\* header->file_count and the address of entries[i], lines 61-62.
file_count(img) == ReadU64(img, Len(UNIFS_MAGIC), U64Bytes)
entry_addr(i) == HeaderSize + i * EntrySize

\* find_entry over the image, lines 21-30: the index of the first entry
\* whose name compares equal, or -1.
RECURSIVE find_entry_from(_, _, _)
find_entry_from(img, name, i) ==
    IF i >= file_count(img) THEN -1
    ELSE IF cstr(img, entry_addr(i)) = name THEN i
    ELSE find_entry_from(img, name, i + 1)

NoFile == [name |-> NULL, size |-> 0, data |-> NULL]

\* The handle unifs_open fills for entry i, lines 83-85: name and data are
\* offsets from fs_start.
FileOf(img, i) ==
    [name |-> entry_addr(i),
     size |-> ReadU64(img, entry_addr(i) + UNIFS_NAME_SIZE + U64Bytes, U64Bytes),
     data |-> ReadU64(img, entry_addr(i) + UNIFS_NAME_SIZE, U64Bytes)]

\* The bytes data[0 .. size) behind a handle.
FileBytes(img, f) == [k \in 1 .. f.size |-> ImageByte(img, f.data + k - 1)]

\* unifs_init(start_addr), lines 54-71; img = << >> stands for nullptr.
unifs_init(img) ==
    /\ ~halted
    /\ IF img = << >>
       THEN /\ mounted' = FALSE
            /\ UNCHANGED fs_start
       ELSE /\ fs_start' = img
            /\ mounted' = (SubSeq(img, 1, Len(UNIFS_MAGIC)) = UNIFS_MAGIC)
    /\ last' = Event("unifs_init", 0, 0, 0)
    /\ UNCHANGED << open_file, schedvars, fdvars, kbvars, hidvars, acpivars, extvars >>

\* unifs_open(name), lines 77-87: the static handle is filled when the entry
\* is found.
unifs_open(name) ==
    /\ ~halted
    /\ LET e == IF mounted THEN find_entry_from(fs_start, name, 0) ELSE -1
       IN  /\ open_file' = IF e = -1 THEN open_file ELSE FileOf(fs_start, e)
           /\ last' = Event("unifs_open", 0, IF e = -1 THEN 0 ELSE 1, name)
    /\ UNCHANGED << fs_start, mounted, fs_files, schedvars, fdvars, kbvars, hidvars,
                    acpivars, extvars >>

\* unifs_get_file_count(), lines 118-120.
unifs_get_file_count == IF mounted THEN file_count(fs_start) ELSE 0

UNIFS_TYPE_UNKNOWN == 0
UNIFS_TYPE_TEXT == 1
UNIFS_TYPE_BINARY == 2
UNIFS_TYPE_ELF == 3
ELF_MAGIC == << 127, 69, 76, 70 >>     \* 0x7F 'E' 'L' 'F'
TEXT_CHECK_SIZE == 2    \* bytes is_text_content looks at (256 in the code)

text_byte_ascii_only(c) == c \in {9, 10, 13} \/ (32 <= c /\ c <= 126)

\* Lines 38-45: the byte c does not make the content binary.
text_byte(c) ==
    /\ ~(c < 32 /\ c # 10 /\ c # 13 /\ c # 9)
    /\ ~(c > 126 /\ c < 160)

\* is_text_content(data, size), lines 33-48.
is_text_content(img, d, size) ==
    LET check_size == IF size < TEXT_CHECK_SIZE THEN size ELSE TEXT_CHECK_SIZE
    IN  \A i \in 0 .. check_size - 1 : text_byte(ImageByte(img, d + i))

\* unifs_get_file_type(name), lines 98-116.
get_file_type(name) ==
    LET e == IF mounted THEN find_entry_from(fs_start, name, 0) ELSE -1
        f == FileOf(fs_start, e)
    IN  IF e = -1 THEN UNIFS_TYPE_UNKNOWN
        ELSE IF f.size >= Len(ELF_MAGIC)
                /\ \A i \in 1 .. Len(ELF_MAGIC) :
                      ImageByte(fs_start, f.data + i - 1) = ELF_MAGIC[i]
             THEN UNIFS_TYPE_ELF
        ELSE IF is_text_content(fs_start, f.data, f.size) THEN UNIFS_TYPE_TEXT
        ELSE UNIFS_TYPE_BINARY

\* The call, which changes no state of the file system.
unifs_get_file_type(name) ==
    /\ ~halted
    /\ last' = Event("unifs_get_file_type", 0, get_file_type(name), name)
    /\ UNCHANGED << schedvars, sysvars >>

\* Static storage of the file system at boot (lines 8-11, 82).
InitUnifs ==
    /\ fs_start = << >>
    /\ mounted = FALSE
    /\ open_file = NoFile
    /\ fs_files = << >>

\* ---- the page mapper (src/kernel/vmm.cpp) ----

TableEntries == 2   \* entries of a page table (512 in the code)
MaxFrames == 3      \* frames the allocator owns; frame 0 holds the PML4
PageBits == 3       \* bits of an entry below the frame address (12 in the code)
PTE_PRESENT == 1
PTE_WRITABLE == 2
PTE_USER == 4

PageSize == 2 ^ PageBits
Frames == 0 .. MaxFrames

\* x & PTE_PRESENT, and x & 0x000FFFFFFFFFF000 as a frame number.
IsPresent(x) == x % 2 = 1
FrameOf(x) == x \div PageSize

ZeroTable == [i \in 0 .. TableEntries - 1 |-> 0]
ZeroMemory == [f \in Frames |-> ZeroTable]

\* pmm_alloc_frame(): the lowest free frame, or 0 (nullptr) when none is
\* free.
pmm_alloc_frame(used) ==
    IF \E f \in 1 .. MaxFrames : f \notin used
    THEN CHOOSE f \in 1 .. MaxFrames : f \notin used /\ \A g \in 1 .. f - 1 : g \in used
    ELSE 0

\* get_next_level(current_level, index, true), lines 22-40, on the state v
\* of memory, allocator and log: the state after it and the table returned
\* (-1: nullptr).  The entry is installed at line 34, the table is cleared at
\* line 37.
get_next_level(v, cur, index) ==
    LET x == v.mem[cur][index]
        f == pmm_alloc_frame(v.used)
    IN  IF IsPresent(x) THEN [v EXCEPT !.next = FrameOf(x)]
        ELSE IF f = 0 THEN [v EXCEPT !.next = -1]
        ELSE [mem |-> [v.mem EXCEPT ![f] = ZeroTable,
                                    ![cur][index] = f * PageSize + PTE_PRESENT
                                                    + PTE_WRITABLE + PTE_USER],
              used |-> v.used \cup {f},
              log |-> v.log \cup {[frame |-> f, phys |-> f * PageSize,
                                   zero |-> v.mem[f] = ZeroTable]},
              next |-> f]

\* The index of virt at a level: 3 for the PML4 down to 0 for the page table.
LevelIndex(virt, level) == (virt \div (TableEntries ^ level)) % TableEntries

\* vmm_map_page(virt, phys, flags), lines 54-73.
vmm_map_page(virt, phys, flags) ==
    /\ ~halted
    /\ LET v0 == [mem |-> pt_mem, used |-> pmm_used, log |-> vmm_log, next |-> 0]
           v1 == get_next_level(v0, 0, LevelIndex(virt, 3))
           v2 == IF v1.next = -1 THEN v1 ELSE get_next_level(v1, v1.next, LevelIndex(virt, 2))
           v3 == IF v2.next = -1 THEN v2 ELSE get_next_level(v2, v2.next, LevelIndex(virt, 1))
       IN  /\ pt_mem' = IF v3.next = -1 THEN v3.mem
                        ELSE [v3.mem EXCEPT ![v3.next][LevelIndex(virt, 0)] = phys + flags]
           /\ pmm_used' = v3.used
           /\ vmm_log' = v3.log
           /\ last' = Event("vmm_map_page", 0, IF v3.next = -1 THEN 0 ELSE 1, 0)
    /\ UNCHANGED << schedvars, fdvars, kbvars, hidvars, acpivars, unifsvars, notvmm >>

\* The mapper at boot: the PML4 in frame 0, the memory mem in the frames.
InitVmm(mem) ==
    /\ pt_mem = mem
    /\ pmm_used = {}
    /\ vmm_log = {}

\* ---- scheduler_schedule() step by step ----

\* The other specifications take scheduler_schedule() as one step; here each
\* call is a frame on the stack of the task it runs on:
\*   kind  : "task" (called by yield or sleep) or "irq" (called by irq_handler)
\*   at    : the line the call is about to execute
\*   entry : history, the interrupt-enable flag when the call was made
\*   flags : the local flags
\*   nxt   : the local next
\*   rflags: the flags switch_to_task pushed
Frame(kind, entry) ==
    [kind |-> kind, at |-> "save", entry |-> entry, flags |-> FALSE, nxt |-> NULL,
     rflags |-> FALSE]

Depth(p) == Len(frames[p])
Top(p) == frames[p][Depth(p)]
Pop(fr, p) == [fr EXCEPT ![p] = SubSeq(fr[p], 1, Len(fr[p]) - 1)]
SetTop(p, f) == [frames EXCEPT ![p][Depth(p)] = f]

\* The task on the CPU is at line `at' of its innermost scheduler_schedule().
InSchedule(p, at) == ~halted /\ p = on_stack /\ Depth(p) > 0 /\ Top(p).at = at

\* The task on the CPU is outside scheduler_schedule().
InTask(p) == Executes(p) /\ p = on_stack /\ Depth(p) = 0

\* interrupts_save_disable(): pushfq; pop; cli.  The flag saved and the flag
\* afterwards.
interrupts_save_disable(enabled) == [flags |-> enabled, enabled |-> FALSE]

\* interrupts_restore(flags): push; popfq.
interrupts_restore(flags) == flags

\* A called scheduler_schedule() returns: to the task, or into irq_handler,
\* which returns with iretq.
Return(p) ==
    IF Top(p).kind = "task" THEN Pop(frames, p)
    ELSE SetTop(p, [Top(p) EXCEPT !.at = "iret"])

\* The timer interrupt is taken (the gate clears the flag): timer_handler()
\* and the call of scheduler_schedule() at kernel.cpp lines 101-102.
IrqEnter ==
    /\ ~halted /\ if_flag
    /\ ticks' = IF ticks < MaxTicks THEN ticks + 1 ELSE ticks
    /\ if_flag' = FALSE
    /\ frames' = [frames EXCEPT ![on_stack] = Append(@, Frame("irq", FALSE))]
    /\ last' = Event("irq", on_stack, current_process, 0)
    /\ UNCHANGED << state, procvars, next, current_process, process_list, next_pid,
                    scheduler_lock, pc, tmp, arg, newp, halted, status_arg,
                    on_stack, fdvars, kbvars, hidvars, acpivars, unifsvars, notirq >>

\* irq_handler returns: iretq restores the flags of the interrupted code.
IrqReturn(p) ==
    /\ InSchedule(p, "iret")
    /\ frames' = Pop(frames, p)
    /\ if_flag' = TRUE
    /\ last' = NoEvent
    /\ UNCHANGED << schedvars, on_stack, fdvars, kbvars, hidvars, acpivars, unifsvars,
                    notirq >>

\* scheduler_yield(), and line 314 of scheduler_sleep: the call is made.
ScheduleCall(p) ==
    /\ InTask(p) /\ pc[p] \in {"run", "sl_sched"}
    /\ frames' = [frames EXCEPT ![p] = Append(@, Frame("task", if_flag))]
    /\ pc' = [pc EXCEPT ![p] = IF @ = "sl_sched" THEN "sl_ret" ELSE @]
    /\ last' = NoEvent
    /\ UNCHANGED << state, procvars, next, current_process, process_list, next_pid,
                    scheduler_lock, ticks, tmp, arg, newp, halted, status_arg,
                    if_flag, on_stack, fdvars, kbvars, hidvars, acpivars, unifsvars,
                    notirq >>

\* Line 151: uint64_t flags = interrupts_save_disable().
ScheduleSave(p) ==
    /\ InSchedule(p, "save")
    /\ LET r == interrupts_save_disable(if_flag)
       IN  /\ if_flag' = r.enabled
           /\ frames' = SetTop(p, [Top(p) EXCEPT !.at = "sweep", !.flags = r.flags])
    /\ last' = NoEvent
    /\ UNCHANGED << schedvars, on_stack, fdvars, kbvars, hidvars, acpivars, unifsvars,
                    notirq >>

\* Line 154: wake_sleeping_processes().
ScheduleSweep(p) ==
    /\ InSchedule(p, "sweep")
    /\ IF WalkFaults
       THEN /\ halted' = TRUE
            /\ last' = Event("fault", 0, 0, 0)
            /\ UNCHANGED << state, frames >>
       ELSE /\ state' = wake_sleeping_processes(state, ticks)
            /\ frames' = SetTop(p, [Top(p) EXCEPT !.at = "find"])
            /\ last' = NoEvent
            /\ UNCHANGED halted
    /\ UNCHANGED << procvars, next, current_process, process_list, next_pid,
                    scheduler_lock, ticks, pc, tmp, arg, newp, status_arg,
                    if_flag, on_stack, fdvars, kbvars, hidvars, acpivars, unifsvars,
                    notirq >>

\* Lines 156-167: the search for the next runnable process and the test of
\* what it found.
ScheduleFind(p) ==
    /\ InSchedule(p, "find")
    /\ LET start == FirstCandidate(current_process)
           nxt == FindFrom(next, start, start, Runnable(state))
       IN  IF nxt = FAULT
           THEN /\ halted' = TRUE
                /\ last' = Event("fault", 0, 0, 0)
                /\ UNCHANGED frames
           ELSE /\ frames' = SetTop(p, [Top(p) EXCEPT
                                 !.at = IF nxt = NULL \/ nxt = current_process
                                        THEN "restore" ELSE "update",
                                 !.nxt = nxt])
                /\ last' = NoEvent
                /\ UNCHANGED halted
    /\ UNCHANGED << state, procvars, next, current_process, process_list, next_pid,
                    scheduler_lock, ticks, pc, tmp, arg, newp, status_arg,
                    if_flag, on_stack, fdvars, kbvars, hidvars, acpivars, unifsvars,
                    notirq >>

\* A return that enables interrupts whatever the flags saved.
ScheduleRestoreEnabled(p) ==
    /\ InSchedule(p, "restore")
    /\ if_flag' = TRUE
    /\ frames' = Return(p)
    /\ last' = Event("schedule_return", p, if_flag', Top(p).entry)
    /\ UNCHANGED << schedvars, on_stack, fdvars, kbvars, hidvars, acpivars, unifsvars,
                    notirq >>

\* Lines 168-170: interrupts_restore(flags); return.
ScheduleRestore(p) ==
    /\ InSchedule(p, "restore")
    /\ if_flag' = interrupts_restore(Top(p).flags)
    /\ frames' = Return(p)
    /\ last' = Event("schedule_return", p, if_flag', Top(p).entry)
    /\ UNCHANGED << schedvars, on_stack, fdvars, kbvars, hidvars, acpivars, unifsvars,
                    notirq >>

\* Lines 173-179: prev leaves Running, current_process = next.
ScheduleUpdate(p) ==
    /\ InSchedule(p, "update")
    /\ state' = [state EXCEPT
                    ![current_process] = IF @ = PROCESS_RUNNING THEN PROCESS_READY ELSE @,
                    ![Top(p).nxt] = PROCESS_RUNNING]
    /\ current_process' = Top(p).nxt
    /\ frames' = SetTop(p, [Top(p) EXCEPT !.at = "switch"])
    /\ last' = NoEvent
    /\ UNCHANGED << procvars, next, process_list, next_pid, scheduler_lock, ticks,
                    pc, tmp, arg, newp, halted, status_arg,
                    if_flag, on_stack, fdvars, kbvars, hidvars, acpivars, unifsvars,
                    notirq >>

\* Line 188: switch_to_task(prev, current_process) pushes the flags, changes
\* to the stack of the new current process and pops its flags: a task that
\* never ran starts with RFLAGS 0x202 (line 110), another one returns from
\* the switch_to_task it was suspended in, and from its scheduler_schedule().
ScheduleSwitch(p) ==
    /\ InSchedule(p, "switch")
    /\ LET n == current_process
           out == SetTop(p, [Top(p) EXCEPT !.at = "suspended", !.rflags = if_flag])
       IN  /\ on_stack' = n
           /\ IF Depth(n) > 0 /\ out[n][Depth(n)].at = "suspended"
              THEN /\ if_flag' = out[n][Depth(n)].rflags
                   /\ frames' = IF out[n][Depth(n)].kind = "task" THEN Pop(out, n)
                                ELSE [out EXCEPT ![n][Depth(n)].at = "iret"]
              ELSE /\ if_flag' = TRUE
                   /\ frames' = out
    /\ last' = Event("switch_to_task", p, if_flag, 0)
    /\ UNCHANGED << schedvars, fdvars, kbvars, hidvars, acpivars, unifsvars, notirq >>

\* What a task does outside scheduler_schedule(): it creates tasks, sleeps,
\* and returns from scheduler_sleep.
TaskStep(p) ==
    /\ InTask(p)
    /\ \/ \E ok \in BOOLEAN : CreateTaskBegin(p, ok, MaxProcs)
       \/ \E ok \in BOOLEAN : CreateTaskInit(p, ok, MaxProcs)
       \/ CreateTaskLinkTail(p)
       \/ CreateTaskLinkHead(p)
       \/ \E t \in SleepArgs : SleepCall(p, t)
       \/ SleepReturn(p)

InitIrq ==
    /\ if_flag = TRUE
    /\ on_stack = 1
    /\ frames = [q \in Slots |-> << >>]

\* ---- the keyboard ring line by line ----

\* A load of the slot after start.
ring_load_next(buf, start) == buf[(start + 1) % KB_BUFFER_SIZE]

\* Line 484: char c = kb_buffer[kb_buffer_start].
ring_load(buf, start) == buf[start]

\* Lines 106-107 of kb_buffer_push(c): next is computed and compared with
\* kb_buffer_start; a full ring drops c.
PushCheck(c) ==
    /\ ~halted /\ push_at = "idle"
    /\ IF (kb_buffer_end + 1) % KB_BUFFER_SIZE # kb_buffer_start
       THEN /\ push_at' = "store"
            /\ push_c' = c
            /\ last' = NoEvent
       ELSE /\ last' = Event("ring_drop", 0, c, Len(kb_fifo))
            /\ UNCHANGED << push_at, push_c >>
    /\ UNCHANGED << get_at, get_c, schedvars, fdvars, kbvars, hidvars, acpivars,
                    unifsvars, notring >>

\* Line 108: kb_buffer[kb_buffer_end] = c.
PushStore ==
    /\ ~halted /\ push_at = "store"
    /\ kb_buffer' = [kb_buffer EXCEPT ![kb_buffer_end] = push_c]
    /\ push_at' = "publish"
    /\ last' = NoEvent
    /\ UNCHANGED << kb_buffer_start, kb_buffer_end, kb_fifo, push_c, get_at, get_c,
                    schedvars, fdvars, hidvars, acpivars, unifsvars, notring >>

\* Line 109: kb_buffer_end = next; from here on the character is in the ring.
PushPublish ==
    /\ ~halted /\ push_at = "publish"
    /\ kb_buffer_end' = (kb_buffer_end + 1) % KB_BUFFER_SIZE
    /\ kb_fifo' = Append(kb_fifo, push_c)
    /\ push_at' = "idle"
    /\ push_c' = 0
    /\ last' = Event("ring_push", 0, push_c, 0)
    /\ UNCHANGED << kb_buffer, kb_buffer_start, get_at, get_c,
                    schedvars, fdvars, hidvars, acpivars, unifsvars, notring >>

\* Lines 481-483 of usb_hid_keyboard_get_char(): the indices are compared, an
\* empty ring returns 0.
GetCompare ==
    /\ ~halted /\ get_at = "idle"
    /\ IF kb_buffer_start = kb_buffer_end
       THEN /\ last' = Event("ring_empty", 0, 0, Len(kb_fifo))
            /\ UNCHANGED get_at
       ELSE /\ get_at' = "load"
            /\ last' = NoEvent
    /\ UNCHANGED << push_at, push_c, get_c, schedvars, fdvars, kbvars, hidvars,
                    acpivars, unifsvars, notring >>

\* Line 484: the character is loaded.
GetLoad ==
    /\ ~halted /\ get_at = "load"
    /\ get_c' = ring_load(kb_buffer, kb_buffer_start)
    /\ get_at' = "advance"
    /\ last' = NoEvent
    /\ UNCHANGED << push_at, push_c, schedvars, fdvars, kbvars, hidvars,
                    acpivars, unifsvars, notring >>

\* Lines 485-486: kb_buffer_start advances and c is returned; last.st is the
\* oldest character pushed and not yet returned (-1: none).
GetAdvance ==
    /\ ~halted /\ get_at = "advance"
    /\ kb_buffer_start' = (kb_buffer_start + 1) % KB_BUFFER_SIZE
    /\ kb_fifo' = IF kb_fifo = << >> THEN << >> ELSE Tail(kb_fifo)
    /\ get_at' = "idle"
    /\ get_c' = 0
    /\ last' = Event("ring_get", 0, get_c, IF kb_fifo = << >> THEN -1 ELSE Head(kb_fifo))
    /\ UNCHANGED << kb_buffer, kb_buffer_end, push_at, push_c,
                    schedvars, fdvars, hidvars, acpivars, unifsvars, notring >>

InitRing ==
    /\ push_at = "idle"
    /\ push_c = 0
    /\ get_at = "idle"
    /\ get_c = 0

\* ---- sys_open in two steps ----

\* Lines 109-124 of sys_open(filename): the string is validated, the table
\* initialized, the file looked up and a free slot searched; the call returns
\* -1 or goes on to line 127 with fd and file in its locals.
OpenFind(p, str, s) ==
    /\ Executes(p) /\ pc[p] = "run"
    /\ IF validate_user_string(str, s, MaxString) = SYS_ERR
       THEN /\ last' = Event("open_failed", p, SYS_ERR, 0)
            /\ UNCHANGED << fd_table, fd_initialized, pc, open_fd, open_local >>
       ELSE LET t1 == init_fd_table(fd_table, fd_initialized)
                file == unifs_open_into(s)
                fd == find_free_fd(t1)
            IN  /\ fd_table' = t1
                /\ fd_initialized' = TRUE
                /\ IF ~file.ok \/ fd < 0
                   THEN /\ last' = Event("open_failed", p, SYS_ERR, 0)
                        /\ UNCHANGED << pc, open_fd, open_local >>
                   ELSE /\ pc' = [pc EXCEPT ![p] = "open_mark"]
                        /\ open_fd' = [open_fd EXCEPT ![p] = fd]
                        /\ open_local' = [open_local EXCEPT ![p] = file]
                        /\ last' = NoEvent
    /\ UNCHANGED << state, procvars, next, current_process, process_list, next_pid,
                    scheduler_lock, ticks, tmp, arg, newp, halted, status_arg,
                    sys_cursor_x, sys_cursor_y, kbvars, hidvars, acpivars, unifsvars,
                    fd_holders, notopen >>

\* Lines 127-133: the slot is filled and fd returned; last.st tells whether
\* the slot was in use already.
OpenMark(p) ==
    /\ Executes(p) /\ pc[p] = "open_mark"
    /\ fd_table' = [fd_table EXCEPT
                       ![open_fd[p]] = OpenedSlot(fd_table[open_fd[p]], open_local[p])]
    /\ fd_holders' = fd_holders \cup {<< p, open_fd[p] >>}
    /\ pc' = [pc EXCEPT ![p] = "run"]
    /\ last' = Event("open_marked", p, open_fd[p],
                     IF fd_table[open_fd[p]].in_use THEN 1 ELSE 0)
    /\ UNCHANGED << state, procvars, next, current_process, process_list, next_pid,
                    scheduler_lock, ticks, tmp, arg, newp, halted, status_arg,
                    fd_initialized, sys_cursor_x, sys_cursor_y, kbvars, hidvars,
                    acpivars, unifsvars, open_fd, open_local, notopen >>

\* sys_close(fd) by a task that holds fd.
CloseHeld(p, fd) ==
    /\ Executes(p) /\ pc[p] = "run"
    /\ << p, fd >> \in fd_holders
    /\ LET r == sys_close(fd_table, fd_initialized, fd)
       IN  /\ fd_table' = r.table
           /\ fd_initialized' = r.init
           /\ last' = Event("close_ret", p, r.ret, fd)
    /\ fd_holders' = fd_holders \ {<< p, fd >>}
    /\ UNCHANGED << schedvars, sys_cursor_x, sys_cursor_y, kbvars, hidvars, acpivars,
                    unifsvars, open_fd, open_local, notopen >>

InitOpen ==
    /\ open_fd = [q \in Slots |-> -1]
    /\ open_local = [q \in Slots |-> unifs_open_into(<< >>)]
    /\ fd_holders = {}

\* ---- the system ----

\* The state after scheduler_init() (lines 40-70) and timer_init, and of the
\* syscall layer and the keyboard ring at boot.
InitSched ==
    /\ state = [q \in Slots |-> IF q = 1 THEN PROCESS_RUNNING ELSE PROCESS_FREE]
    /\ pid = [q \in Slots |-> 0]
    /\ parent_pid = [q \in Slots |-> 0]
    /\ exit_status = [q \in Slots |-> 0]
    /\ wait_for_pid = [q \in Slots |-> 0]
    /\ wake_time = [q \in Slots |-> 0]
    /\ next = [q \in Slots |-> IF q = 1 THEN 1 ELSE NULL]
    /\ current_process = 1
    /\ process_list = 1
    /\ next_pid = 1
    /\ scheduler_lock = 0
    /\ ticks = 0
    /\ pc = [q \in Slots |-> "run"]
    /\ tmp = [q \in Slots |-> 0]
    /\ arg = [q \in Slots |-> 0]
    /\ newp = [q \in Slots |-> NULL]
    /\ halted = FALSE
    /\ status_arg = [q \in Slots |-> NULL]

\* Boot without the state of the page mapper.
InitDrivers ==
    /\ InitSched /\ InitSys /\ InitHid /\ InitAcpi /\ InitUnifs /\ InitIrq /\ InitRing
    /\ InitOpen
    /\ usb_devices = << >>

\* Boot with no USB device enumerated.

InitBoot == InitDrivers /\ InitVmm(ZeroMemory)

Init == InitBoot /\ last = Event("init", 0, 0, 0)

Next ==
    \/ TimerIRQ
    \/ \E p \in Slots : Yield(p)
    \/ \E p \in Slots, t \in SleepArgs : SleepCall(p, t)
    \/ \E p \in Slots : SleepSchedule(p)
    \/ \E p \in Slots : SleepReturn(p)
    \/ \E p \in Slots, a \in WaitArgs : WaitpidCall(p, a)
    \/ \E p \in Slots : WaitpidRescan(p)
    \/ \E p \in Slots : WaitpidSetState(p)
    \/ \E p \in Slots : WaitpidSetFilter(p)
    \/ \E p \in Slots : WaitpidSchedule(p)
    \/ \E p \in Slots, s \in ExitStatuses : ExitCall(p, s)
    \/ \E p \in Slots : ExitStatus(p)
    \/ \E p \in Slots : ExitWake(p)
    \/ \E p \in Slots : ExitSchedule(p)
    \/ \E p \in Slots, ok \in BOOLEAN : CreateTaskBegin(p, ok, MaxProcs)
    \/ \E p \in Slots, ok \in BOOLEAN : CreateTaskInit(p, ok, MaxProcs)
    \/ \E p \in Slots : CreateTaskLinkTail(p)
    \/ \E p \in Slots : CreateTaskLinkHead(p)
    \/ \E p \in Slots, ok \in BOOLEAN : ForkBegin(p, ok, MaxProcs)
    \/ \E p \in Slots, ok \in BOOLEAN, faults \in BOOLEAN : ForkInit(p, ok, faults, MaxProcs)
    \/ \E p \in Slots : ForkLinkTail(p)
    \/ \E p \in Slots : ForkLinkHead(p)

Spec == Init /\ [][Next]_vars

\* Task creation alone, preempted by the timer, with room for MaxSlots records.
NextCreate ==
    \/ TimerIRQ
    \/ \E p \in Slots : Yield(p)
    \/ \E p \in Slots, ok \in BOOLEAN : CreateTaskBegin(p, ok, MaxSlots)
    \/ \E p \in Slots, ok \in BOOLEAN : CreateTaskInit(p, ok, MaxSlots)
    \/ \E p \in Slots : CreateTaskLinkTail(p)
    \/ \E p \in Slots : CreateTaskLinkHead(p)
    \/ \E p \in Slots, ok \in BOOLEAN : ForkBegin(p, ok, MaxSlots)
    \/ \E p \in Slots, ok \in BOOLEAN, faults \in BOOLEAN : ForkInit(p, ok, faults, MaxSlots)
    \/ \E p \in Slots : ForkLinkTail(p)
    \/ \E p \in Slots : ForkLinkHead(p)

SpecCreate == Init /\ [][NextCreate]_vars

TypeOK ==
    /\ state \in [Slots -> {PROCESS_FREE, PROCESS_READY, PROCESS_RUNNING, PROCESS_SLEEPING,
                            PROCESS_WAITING, PROCESS_ZOMBIE, PROCESS_BLOCKED}]
    /\ next \in [Slots -> Slots \cup {NULL}]
    /\ current_process \in Slots
    /\ next_pid \in 1 .. MaxSlots
    /\ ticks \in 0 .. MaxTicks


\* The steps that carry on the scheduler call task p is in.
Internal(p) ==
    \/ SleepSchedule(p) \/ SleepReturn(p)
    \/ WaitpidRescan(p) \/ WaitpidSetState(p) \/ WaitpidSetFilter(p) \/ WaitpidSchedule(p)
    \/ ExitStatus(p) \/ ExitWake(p) \/ ExitSchedule(p)
    \/ (\E ok \in BOOLEAN : CreateTaskInit(p, ok, MaxLive))
    \/ CreateTaskLinkTail(p) \/ CreateTaskLinkHead(p)
    \/ (\E ok \in BOOLEAN, faults \in BOOLEAN : ForkInit(p, ok, faults, MaxLive))
    \/ ForkLinkTail(p) \/ ForkLinkHead(p)

\* All operations, with room for MaxLive records.
NextLive ==
    \/ TimerIRQ
    \/ \E p \in Slots : Yield(p)
    \/ \E p \in Slots, t \in SleepArgs : SleepCall(p, t)
    \/ \E p \in Slots, a \in WaitArgs : WaitpidCall(p, a)
    \/ \E p \in Slots, s \in ExitStatuses : ExitCall(p, s)
    \/ \E p \in Slots, ok \in BOOLEAN : CreateTaskBegin(p, ok, MaxLive)
    \/ \E p \in Slots, ok \in BOOLEAN : ForkBegin(p, ok, MaxLive)
    \/ \E p \in Slots : Internal(p)

\* The timer keeps interrupting (kernel.cpp irq_handler calls
\* scheduler_schedule() on every tick until the kernel halts), and a task that
\* is given the CPU again and again gets on with the call it is in.
SpecFair ==
    /\ Init /\ [][NextLive]_vars
    /\ WF_vars(TimerIRQ)
    /\ \A p \in Slots : SF_vars(Internal(p))

\* The steps that carry on the fork, create_task, waitpid or exit task p is in.
InternalWait(p) ==
    \/ WaitpidRescan(p) \/ WaitpidSetState(p) \/ WaitpidSetFilter(p) \/ WaitpidSchedule(p)
    \/ ExitStatus(p) \/ ExitWake(p) \/ ExitSchedule(p)
    \/ (\E ok \in BOOLEAN : CreateTaskInit(p, ok, MaxProcs))
    \/ CreateTaskLinkTail(p) \/ CreateTaskLinkHead(p)
    \/ (\E ok \in BOOLEAN, faults \in BOOLEAN : ForkInit(p, ok, faults, MaxProcs))
    \/ ForkLinkTail(p) \/ ForkLinkHead(p)

\* Creation, waitpid and exit under timer preemption, with room for MaxProcs
\* records.
NextWait ==
    \/ TimerIRQ
    \/ \E p \in Slots, a \in WaitArgs : WaitpidCall(p, a)
    \/ \E p \in Slots, s \in ExitStatuses : ExitCall(p, s)
    \/ \E p \in Slots, ok \in BOOLEAN : CreateTaskBegin(p, ok, MaxProcs)
    \/ \E p \in Slots, ok \in BOOLEAN : ForkBegin(p, ok, MaxProcs)
    \/ \E p \in Slots : InternalWait(p)

SpecWaitFair ==
    /\ Init /\ [][NextWait]_vars
    /\ WF_vars(TimerIRQ)
    /\ \A p \in Slots : SF_vars(InternalWait(p))


\* ---- the syscall layer and the keyboard ring as systems ----

\* validate_user_ptr alone: the arguments are drawn over the whole word range
\* and the function is applied to them.
InitPtr ==
    /\ InitBoot
    /\ last \in {Event("args", 0, P, L) : P \in 0 .. Word - 1, L \in 0 .. Word - 1}

\* The call validate_user_ptr(last.val, last.st); last.p is 1 for true.
ValidateUserPtr ==
    /\ last.op = "args"
    /\ last' = Event("validate_user_ptr",
                     IF validate_user_ptr(last.val, last.st) THEN 1 ELSE 0,
                     last.val, last.st)
    /\ UNCHANGED << schedvars, sysvars >>

SpecPtr == InitPtr /\ [][ValidateUserPtr]_vars

\* The syscalls of one task on the FD table, one call after the other (the
\* FD table is not shared between running tasks here), and WAIT4 with the
\* steps of process_waitpid behind it.
NextSys ==
    \/ \E p \in Slots, fd \in FdArgs, buf \in PtrArgs, count \in CountArgs :
           SysRead(p, fd, buf, count)
    \/ \E p \in Slots, fd \in FdArgs, buf \in PtrArgs, count \in CountArgs :
           \E text \in Texts(count) : SysWrite(p, fd, buf, count, text)
    \/ \E p \in Slots, str \in PtrArgs, s \in Names : SysOpen(p, str, s)
    \/ \E p \in Slots, fd \in FdArgs : SysClose(p, fd)
    \/ \E p \in Slots, a \in WaitArgs, sp \in PtrArgs : SysWait4(p, a, sp)
    \/ \E p \in Slots : WaitpidRescan(p)
    \/ \E p \in Slots : WaitpidSetState(p)
    \/ \E p \in Slots : WaitpidSetFilter(p)
    \/ \E p \in Slots : WaitpidSchedule(p)

SpecSys == Init /\ [][NextSys]_vars

\* Creation, exit and the WAIT4 syscall under timer preemption, with room for
\* MaxProcs records.
NextWait4 ==
    \/ TimerIRQ
    \/ \E p \in Slots, a \in WaitArgs, sp \in PtrArgs : SysWait4(p, a, sp)
    \/ \E p \in Slots, s \in ExitStatuses : ExitCall(p, s)
    \/ \E p \in Slots, ok \in BOOLEAN : CreateTaskBegin(p, ok, MaxProcs)
    \/ \E p \in Slots, ok \in BOOLEAN : ForkBegin(p, ok, MaxProcs)
    \/ \E p \in Slots : InternalWait(p)

SpecWait4 == Init /\ [][NextWait4]_vars

\* The keyboard ring: the main loop pushes (through usb_hid_poll) and reads.
NextKb ==
    \/ \E c \in KbChars : kb_buffer_push(c)
    \/ usb_hid_keyboard_get_char

SpecKb == Init /\ [][NextKb]_vars

\* ---- the HID driver polled from the main loop (kernel.cpp lines 305-309) ----

\* A keyboard, a mouse and a keyboard with a mouse on a second endpoint, as
\* usb_get_device returns them; interval is the keyboard's hid_interval.
KeyboardDev(interval) ==
    [configured |-> TRUE, slot_id |-> 1, is_keyboard |-> TRUE, is_mouse |-> FALSE,
     hid_endpoint |-> 1, hid_endpoint2 |-> 0, hid_interval |-> interval]

MouseDev(interval) ==
    [configured |-> TRUE, slot_id |-> 2, is_keyboard |-> FALSE, is_mouse |-> TRUE,
     hid_endpoint |-> 1, hid_endpoint2 |-> 0, hid_interval |-> interval]

CompositeDev(interval) ==
    [configured |-> TRUE, slot_id |-> 1, is_keyboard |-> TRUE, is_mouse |-> TRUE,
     hid_endpoint |-> 1, hid_endpoint2 |-> 2, hid_interval |-> interval]

\* The state after usb_hid_init() (lines 319-397) with the devices devs: a
\* mouse is marked available and centred on the default screen.
InitHidDevices(devs) ==
    /\ InitSched /\ InitSys /\ InitAcpi /\ InitUnifs /\ InitVmm(ZeroMemory) /\ InitIrq
    /\ InitRing /\ InitOpen
    /\ usb_devices = devs
    /\ LET mouse == \E i \in 1 .. Len(devs) : devs[i].configured /\ devs[i].is_mouse
       IN  /\ mouse_available = mouse
           /\ mouse_x = IF mouse THEN ScreenDefaultWidth \div 2 ELSE 0
           /\ mouse_y = IF mouse THEN ScreenDefaultHeight \div 2 ELSE 0
    /\ timer_ticks = 0
    /\ last_keyboard_report = [modifiers |-> {}, keys |-> [i \in 1 .. ReportKeys |-> 0]]
    /\ repeat_keycode = 0
    /\ repeat_start_tick = 0
    /\ repeat_last_tick = 0
    /\ repeat_shift = FALSE
    /\ last_keyboard_poll = 0
    /\ mouse_buttons = [left |-> FALSE, right |-> FALSE, middle |-> FALSE]
    /\ mouse_scroll = 0
    /\ mouse_data_received = FALSE
    /\ screen_width = ScreenDefaultWidth
    /\ screen_height = ScreenDefaultHeight
    /\ hid_log = NoPoll
    /\ last = Event("init", 0, 0, 0)

\* An interrupt transfer that fails, and one that returns the 8-byte report r.
NoReport == [modifiers |-> {}, keys |-> [i \in 1 .. ReportKeys |-> 0]]

TransferFails == [success |-> FALSE, transferred |-> 0, report |-> NoReport, data |-> << >>]

KeyboardTransfer(r) == [success |-> TRUE, transferred |-> 8, report |-> r, data |-> << >>]

\* The keyboard reports over the key codes codes and the modifier sets mods.
Reports(codes, mods) ==
    {[modifiers |-> m, keys |-> ks] : m \in mods, ks \in [1 .. ReportKeys -> codes]}

\* Edge detection: a keyboard that reports at every tick for KeysTicks ticks,
\* and the shell reading the ring.
KeysTicks == 3

NextKeys ==
    \/ \E r \in Reports({0, KEY_A, KEY_B, KEY_CAPSLOCK, KEY_BEYOND}, {{}}) :
          usb_hid_poll(KeyboardTransfer(r), TransferFails, mouse_x, mouse_y)
    \/ usb_hid_poll(TransferFails, TransferFails, mouse_x, mouse_y)
    \/ timer_ticks < KeysTicks /\ HidTimerTick
    \/ usb_hid_keyboard_get_char

SpecKeys == InitHidDevices(<< KeyboardDev(1) >>) /\ [][NextKeys]_vars

\* Key repeat: a keyboard on which a, or Left with shift, is pressed and
\* released, polled at any tick up to RepeatTicks, and the shell reading the
\* ring.
RepeatTicks == 5

RepeatReports == Reports({0, KEY_A}, {{}}) \cup Reports({0, KEY_LEFT}, {{"shift"}})

NextRepeat ==
    \/ \E r \in RepeatReports :
          usb_hid_poll(KeyboardTransfer(r), TransferFails, mouse_x, mouse_y)
    \/ timer_ticks < RepeatTicks /\ HidTimerTick
    \/ usb_hid_keyboard_get_char

SpecRepeat == InitHidDevices(<< KeyboardDev(1) >>) /\ [][NextRepeat]_vars

\* Keys held together: a keyboard on which a and b are pressed and released
\* in any order, polled at any tick up to RepeatTicks.
NextHeld ==
    \/ \E r \in Reports({0, KEY_A, KEY_B}, {{}}) :
          usb_hid_poll(KeyboardTransfer(r), TransferFails, mouse_x, mouse_y)
    \/ timer_ticks < RepeatTicks /\ HidTimerTick

SpecHeld == InitHidDevices(<< KeyboardDev(1) >>) /\ [][NextHeld]_vars

\* Keys with modifiers: a and CapsLock pressed and released with or without
\* ctrl, and Left with shift, polled at any tick up to ComboTicks.
ComboTicks == 4

ComboReports ==
    Reports({0, KEY_A, KEY_CAPSLOCK}, {{}, {"ctrl"}}) \cup Reports({0, KEY_LEFT}, {{"shift"}})

NextCombo ==
    \/ \E r \in ComboReports :
          usb_hid_poll(KeyboardTransfer(r), TransferFails, mouse_x, mouse_y)
    \/ timer_ticks < ComboTicks /\ HidTimerTick

SpecCombo == InitHidDevices(<< KeyboardDev(1) >>) /\ [][NextCombo]_vars

\* An interrupt transfer that returns the mouse report d.
MouseTransfer(d) == [success |-> TRUE, transferred |-> Len(d), report |-> NoReport, data |-> d]

\* The deltas of the mouse reports of the model: none, the largest and the
\* most negative.
MouseDeltas == {0, 2 ^ (ByteBits - 1) - 1, 2 ^ (ByteBits - 1)}

\* Mouse reports of 2 to 5 bytes, with and without a report id.
MouseData ==
    {<< 0, d >> : d \in MouseDeltas}
    \cup {<< b, dx, dy >> : b \in {0, 1}, dx \in MouseDeltas, dy \in MouseDeltas}
    \cup {<< 1, dx, dy, 1 >> : dx \in MouseDeltas, dy \in MouseDeltas}
    \cup {<< id, 1, d, d, 2 ^ ByteBits - 1 >> : id \in {0, 1}, d \in MouseDeltas}

\* The sizes passed to usb_hid_set_screen_size: small ones, none, and the
\* largest int32_t.
ScreenSizes == (0 .. MaxScreen) \cup {IntMax}

\* The mouse: reports of any content, and the screen size set at any time.
NextMouse ==
    \/ \E d \in MouseData :
          \E x1 \in MouseSumsX(MouseState, d, Len(d)), y1 \in MouseSumsY(MouseState, d, Len(d)) :
              usb_hid_poll(TransferFails, MouseTransfer(d), x1, y1)
    \/ usb_hid_poll(TransferFails, TransferFails, mouse_x, mouse_y)
    \/ \E w \in ScreenSizes, h \in ScreenSizes : usb_hid_set_screen_size(w, h)

SpecMouse == InitHidDevices(<< MouseDev(1) >>) /\ [][NextMouse]_vars

PollTicks == 5

\* A composite keyboard and mouse with a poll interval of 2 ticks, polled any
\* number of times within a tick.
NextPoll ==
    \/ \E r \in Reports({0, KEY_A}, {{}}), d \in {<< 0, 0, 0 >>, << 1, 1, 0 >>} :
          \E x1 \in MouseSumsX(MouseState, d, Len(d)), y1 \in MouseSumsY(MouseState, d, Len(d)) :
              usb_hid_poll(KeyboardTransfer(r), MouseTransfer(d), x1, y1)
    \/ usb_hid_poll(TransferFails, TransferFails, mouse_x, mouse_y)
    \/ timer_ticks < PollTicks /\ HidTimerTick
    \/ usb_hid_keyboard_get_char

SpecPoll == InitHidDevices(<< CompositeDev(2) >>) /\ [][NextPoll]_vars

\* ---- ACPI at boot and the power-off ----

\* The encodings of the integer v in AML as the parser reads them.
Enc(v) == {<< AML_BYTE_PREFIX, v >>, << AML_WORD_PREFIX, v, 0 >>, << v >>}

\* Package lengths of 1 to 4 bytes: the top 2 bits of the first byte count
\* the bytes that follow.
PkgLengths == {<< 6 >>, << 70, 0 >>, << 134, 0, 0 >>, << 198, 0, 0, 0 >>}

S5Values == {5, 7}

\* A DSDT with the bytes body after its header; the header makes the checksum
\* hold iff valid.  shape, a and b tell how the body was built.
Dsdt(body, valid, beyond, shape, a, b) ==
    [body |-> body,
     hsum |-> ((256 - SumBytes(body)) + (IF valid THEN 0 ELSE 1)) % 256,
     beyond |-> beyond, shape |-> shape, a |-> a, b |-> b]

\* The bodies that start with head and go on with two integers in every
\* encoding.
PackageBodies(head, shape) ==
    UNION {{[body |-> head \o ea \o eb, shape |-> shape, a |-> ab[1], b |-> ab[2]] :
               ea \in Enc(ab[1]), eb \in Enc(ab[2])} : ab \in S5Values \X S5Values}

\* "package": the name, PackageOp, a package length and two integers.
\* "counted": the same with the element count before the integers.
\* "late": a PackageOp that is not next to the name.
\* The others have no name, no package after the name, or elements that are
\* no integers.
DsdtBodies ==
    UNION {PackageBodies(S5Name \o << AML_PACKAGE_OP >> \o pl, "package") : pl \in PkgLengths}
    \cup PackageBodies(<< AML_NAME_OP >> \o S5Name \o << AML_PACKAGE_OP, 6, 2 >>, "counted")
    \cup UNION {PackageBodies(S5Name \o << 0, AML_PACKAGE_OP >> \o pl \o << 2 >>, "late") :
                   pl \in {<< 6 >>, << 70, 0 >>}}
    \cup {[body |-> << 0, 0, 0, 0, 0, 0 >>, shape |-> "no name", a |-> 0, b |-> 0],
          [body |-> S5Name \o << 0, 0, 0, 0 >>, shape |-> "no package", a |-> 0, b |-> 0],
          [body |-> S5Name \o << 0, AML_PACKAGE_OP >>, shape |-> "no package",
           a |-> 0, b |-> 0],
          [body |-> S5Name \o << 0, AML_PACKAGE_OP, 6, 2, 255, 255 >>,
           shape |-> "malformed", a |-> 0, b |-> 0]}

Dsdts ==
    {Dsdt(x.body, valid, beyond, x.shape, x.a, x.b) :
        x \in DsdtBodies, valid \in BOOLEAN, beyond \in {0}}
    \cup {Dsdt(x.body, TRUE, 255, x.shape, x.a, x.b) :
            x \in {y \in DsdtBodies : y.shape # "package"}}

\* A FADT with both PM1 control blocks and an SMI command port.
Tables(rsdp, rsdt_ok, fadt, pm1a, pm1b, smi, dsdt_addr, dsdt) ==
    [rsdp |-> rsdp, rsdt_ok |-> rsdt_ok, fadt |-> fadt, pm1a_cnt_blk |-> pm1a,
     pm1b_cnt_blk |-> pm1b, smi_cmd |-> smi, acpi_enable |-> IF smi = 0 THEN 0 ELSE 1,
     dsdt_addr |-> dsdt_addr, dsdt |-> dsdt]

PlainDsdt == Dsdt(<< 0, 0, 0, 0, 0, 0 >>, TRUE, 0, "no name", 0, 0)

AcpiTables ==
    {Tables(TRUE, TRUE, TRUE, 1028, 1032, 178, 1, d) : d \in Dsdts}
    \cup {Tables(TRUE, TRUE, TRUE, pm1a, pm1b, smi, dsdt_addr, PlainDsdt) :
            pm1a \in {0, 1028}, pm1b \in {0, 1032}, smi \in {0, 178}, dsdt_addr \in {0, 1}}
    \cup {Tables(rsdp, rsdt_ok, fadt, 1028, 0, 0, 1, PlainDsdt) :
            rsdp \in BOOLEAN, rsdt_ok \in BOOLEAN, fadt \in BOOLEAN}

\* The longest run of acpi_poweroff: cli, the SMI command, the parsed sleep
\* type, the common ones on both blocks, the two emulator ports.
PoweroffSteps == 3 + 2 * Len(common_slp_types) + 2

\* acpi_init once at boot, then poweroff from the shell.
NextAcpi ==
    \/ \E t \in AcpiTables : acpi_init(t)
    \/ \E sci \in BOOLEAN, stop \in 0 .. PoweroffSteps : acpi_poweroff(sci, stop)

SpecAcpi == Init /\ [][NextAcpi]_vars

\* ---- images built and mounted ----

MaxFiles == 2       \* files of an image

\* A little-endian field of n bytes holding v.
RECURSIVE WriteU64(_, _)
WriteU64(v, n) == IF n = 0 THEN << >> ELSE << v % 256 >> \o WriteU64(v \div 256, n - 1)

\* The name field of an entry: the name and NULs up to UNIFS_NAME_SIZE.
NameField(name) == name \o [k \in 1 .. UNIFS_NAME_SIZE - Len(name) |-> 0]

RECURSIVE Concat(_)
Concat(seqs) == IF seqs = << >> THEN << >> ELSE Head(seqs) \o Concat(Tail(seqs))

\* The image of a list of files: the header, one entry per file, and the
\* contents one after the other behind the entries.
build(files) ==
    LET n == Len(files)
        first == HeaderSize + n * EntrySize
        offset(i) == first + Len(Concat([j \in 1 .. i - 1 |-> files[j].contents]))
    IN  UNIFS_MAGIC \o WriteU64(n, U64Bytes)
        \o Concat([i \in 1 .. n |->
                     NameField(files[i].name) \o WriteU64(offset(i), U64Bytes)
                     \o WriteU64(Len(files[i].contents), U64Bytes)])
        \o Concat([i \in 1 .. n |-> files[i].contents])

\* Names that fit the name field with their NUL, and a few contents.
FileNames == UNION {[1 .. n -> {97, 98}] : n \in 1 .. UNIFS_NAME_SIZE - 1}
FileContents == {<< >>, << 7 >>, << 8, 9 >>}
Files == [name : FileNames, contents : FileContents]
FileLists == UNION {[1 .. n -> Files] : n \in 0 .. MaxFiles}

\* The names asked for: those of files and some of none.
AskedNames == FileNames \cup {<< >>, << 99 >>}

\* An image with another magic.
BadImage == << 85, 78, 73, 70, 83, 32, 118, 50 >> \o WriteU64(0, U64Bytes)

\* The boot module is mounted once at boot; files are opened by name.
NextUnifs ==
    \/ \E files \in FileLists :
          fs_start = << >> /\ unifs_init(build(files)) /\ fs_files' = files
    \/ \E img \in {<< >>, BadImage} :
          fs_start = << >> /\ unifs_init(img) /\ fs_files' = << >>
    \/ \E name \in AskedNames : unifs_open(name)

SpecUnifs == Init /\ [][NextUnifs]_vars

\* ---- the types of files ----

\* Bytes on both sides of every test of is_text_content.
TypeBytes == {10, 31, 65, 127, 160}

\* Contents of up to TEXT_CHECK_SIZE + 1 bytes, and some that start as ELF
\* files do.
TypeContents ==
    UNION {[1 .. n -> TypeBytes] : n \in 0 .. TEXT_CHECK_SIZE + 1}
    \cup {ELF_MAGIC, ELF_MAGIC \o << 0 >>, SubSeq(ELF_MAGIC, 1, 3),
          << 127, 69, 76, 71 >>}

\* An image of one file is mounted; its type is asked for.
NextType ==
    \/ \E c \in TypeContents :
          /\ fs_start = << >>
          /\ unifs_init(build(<< [name |-> << 97 >>, contents |-> c] >>))
          /\ fs_files' = << [name |-> << 97 >>, contents |-> c] >>
    \/ \E name \in {<< 97 >>, << 98 >>} : unifs_get_file_type(name)

SpecType == Init /\ [][NextType]_vars

\* ---- pages mapped ----

\* What a free frame may hold: zeroes, or what its last owner left, here an
\* entry that is present.
StaleTable == [i \in 0 .. TableEntries - 1 |-> PageSize + PTE_PRESENT]
Memories ==
    {mem \in [Frames -> {ZeroTable, StaleTable}] : mem[0] = ZeroTable}

\* Pages are mapped anywhere, until and after the frames run out.
NextVmm ==
    \E virt \in 0 .. TableEntries ^ 4 - 1, phys \in {PageSize, 2 * PageSize} :
        vmm_map_page(virt, phys, PTE_PRESENT + PTE_WRITABLE)

\* Boot with any of those memories.
InitMemories ==
    /\ InitDrivers
    /\ last = Event("init", 0, 0, 0)
    /\ \E mem \in Memories : InitVmm(mem)

SpecVmm == InitMemories /\ [][NextVmm]_vars

\* ---- sleeping for milliseconds ----

MaxMs == 45
\* The frequencies of the timer: 100 is the one kernel.cpp sets (line 235).
Freqs == {18, 100, 1000}

NextSleepMs ==
    \/ TimerIRQ
    \/ \E p \in Slots, ms \in 0 .. MaxMs, freq \in Freqs : scheduler_sleep_ms(p, ms, freq)
    \/ \E p \in Slots : SleepSchedule(p)
    \/ \E p \in Slots : SleepReturn(p)

SpecSleepMs == Init /\ [][NextSleepMs]_vars

\* ---- the interrupt flag ----

NextIrq ==
    \/ IrqEnter
    \/ \E p \in Slots : IrqReturn(p)
    \/ \E p \in Slots : ScheduleCall(p)
    \/ \E p \in Slots : ScheduleSave(p)
    \/ \E p \in Slots : ScheduleSweep(p)
    \/ \E p \in Slots : ScheduleFind(p)
    \/ \E p \in Slots : ScheduleRestore(p)
    \/ \E p \in Slots : ScheduleUpdate(p)
    \/ \E p \in Slots : ScheduleSwitch(p)
    \/ \E p \in Slots : TaskStep(p)

SpecIrq == Init /\ [][NextIrq]_vars

\* ---- the ring shared ----

\* A producer and a consumer, each at any of its lines at any time.
NextRing ==
    \/ \E c \in KbChars : PushCheck(c)
    \/ PushStore
    \/ PushPublish
    \/ GetCompare
    \/ GetLoad
    \/ GetAdvance

SpecRing == Init /\ [][NextRing]_vars

\* ---- the FD table shared ----

\* Two tasks that open and close files, preempted by the timer anywhere.
NextOpen ==
    \/ TimerIRQ
    \/ \E p \in Slots, ok \in BOOLEAN : CreateTaskBegin(p, ok, MaxLive)
    \/ \E p \in Slots, ok \in BOOLEAN : CreateTaskInit(p, ok, MaxLive)
    \/ \E p \in Slots : CreateTaskLinkTail(p)
    \/ \E p \in Slots : CreateTaskLinkHead(p)
    \/ \E p \in Slots, str \in {0, 1}, s \in Names : OpenFind(p, str, s)
    \/ \E p \in Slots : OpenMark(p)
    \/ \E p \in Slots, fd \in FdRange : CloseHeld(p, fd)

SpecOpen == Init /\ [][NextOpen]_vars

\* ---- claims ----

Allocated == {q \in Slots : state[q] # PROCESS_FREE}

\* C1: whenever scheduler_schedule() has returned (without switching, or into
\* the task it switched to), the current process is Running and no other
\* process is Running.
C1_ScheduleLeavesCurrentRunning ==
    last.op \in {"sched_early", "sched_switch"} =>
        /\ state[current_process] = PROCESS_RUNNING
        /\ \A q \in Slots \ {current_process} : state[q] # PROCESS_RUNNING

\* C2: a return of process_waitpid(a, &status) by p with value c reaps a
\* process that was a Zombie with parent_pid = pid of p and a pid the filter
\* accepts, makes it Blocked, returns its pid, and writes to *status the status
\* that child passed to process_exit (the parameter held in arg).
C2_WaitpidReturnsChildAndStatus ==
    [][\A p \in Slots, a \in WaitArgs :
         ((WaitpidCall(p, a) \/ (WaitpidRescan(p) /\ a = arg[p])) /\ last'.op = "waitpid_ret")
         => \E c \in Slots :
               /\ state[c] = PROCESS_ZOMBIE /\ state'[c] = PROCESS_BLOCKED
               /\ parent_pid[c] = pid[p]
               /\ (a = -1 \/ a = pid[c])
               /\ last'.val = pid[c]
               /\ last'.st = arg[c]]_vars


\* The records whose link into the list has started.
Linked == {q \in Allocated : \A p \in Slots : ~(newp[p] = q /\ pc[p] \in {"ct_link", "fk_link"})}

\* No task is between the two writes of a link step (lines 125-126, 248-249).
NoLinkInProgress == \A p \in Slots : pc[p] \notin {"ct_head", "fk_head"}

RECURSIVE WalkLen(_, _, _)
\* The number of next steps from p back to `start', or -1 if the walk meets
\* NULL or does not come back within n steps.
WalkLen(p, start, n) ==
    IF n = 0 \/ next[p] = NULL THEN -1
    ELSE IF next[p] = start THEN 1
    ELSE LET r == WalkLen(next[p], start, n - 1) IN IF r = -1 THEN -1 ELSE r + 1

RECURSIVE Reached(_, _)
\* The nodes reached from p in at most n next steps.
Reached(p, n) ==
    IF n = 0 \/ p = NULL THEN {} ELSE {p} \cup Reached(next[p], n - 1)

\* C4: between link steps the list is circular: from every process of the
\* list the walk along next passes every other process exactly once and comes
\* back to where it started.
C4_ListIsCircular ==
    NoLinkInProgress =>
        \A p \in Linked :
            /\ WalkLen(p, p, MaxSlots) = Cardinality(Linked)
            /\ Reached(p, Cardinality(Linked)) = Linked

\* C4 witness: three tasks are linked and a creation has failed on the way
\* (a pid was consumed by a task that never entered the list).
C4_Witness ==
    /\ NoLinkInProgress
    /\ Cardinality(Linked) >= 3
    /\ next_pid > Cardinality(Allocated)

\* C5: process_exit(status) by p: the first write makes p a Zombie and
\* changes nothing else; the second stores status in p's exit_status; the
\* wake step sets the parent (the process with pid parent_pid) to Ready
\* exactly when it is Waiting with wait_for_pid 0 or the pid of p; and no
\* step of the exit changes the state of any other process.
C5_ExitFrame ==
    [][\A p \in Slots :
         /\ (\E s \in ExitStatuses : ExitCall(p, s)) =>
                /\ state'[p] = PROCESS_ZOMBIE
                /\ \A q \in Slots \ {p} : state'[q] = state[q]
         /\ ExitStatus(p) =>
                /\ exit_status'[p] = arg[p]
                /\ state' = state
                /\ \A q \in Slots \ {p} : exit_status'[q] = exit_status[q]
         /\ (ExitWake(p) /\ ~halted') =>
                LET parent == process_find_by_pid(parent_pid[p])
                    wakes == /\ parent # NULL
                             /\ state[parent] = PROCESS_WAITING
                             /\ wait_for_pid[parent] \in {0, pid[p]}
                IN  /\ exit_status'[p] = arg[p] /\ state[p] = PROCESS_ZOMBIE
                    /\ \A q \in Slots :
                          state'[q] = IF q = parent /\ wakes THEN PROCESS_READY ELSE state[q]]_vars

\* C5 witness: an exiting child is past its wake step while its parent waits
\* for a different pid and is still Waiting.
C5_Witness ==
    \E p \in Slots, q \in Slots :
        /\ pc[p] = "ex_sched" /\ p = current_process
        /\ q # p /\ pid[q] = parent_pid[p]
        /\ state[q] = PROCESS_WAITING
        /\ wait_for_pid[q] \notin {0, pid[p]}

\* C6: a process that is Zombie stays Zombie until it is reaped and Blocked
\* from then on; scheduler_schedule() never makes it the current process
\* again, and it never leaves process_exit.
C6_ZombieIsTerminal ==
    [][\A q \in Slots :
         /\ state[q] = PROCESS_ZOMBIE => state'[q] \in {PROCESS_ZOMBIE, PROCESS_BLOCKED}
         /\ state[q] = PROCESS_BLOCKED => state'[q] = PROCESS_BLOCKED
         /\ (state[q] \in {PROCESS_ZOMBIE, PROCESS_BLOCKED} /\ current_process # q)
                => current_process' # q
         /\ pc[q] \in {"ex_status", "ex_wake", "ex_sched", "ex_spin"}
                => pc'[q] \in {"ex_status", "ex_wake", "ex_sched", "ex_spin"}]_vars

\* C6 witness: a reaped (Blocked) process and a Zombie both sit in the list
\* while another task runs after a switch.
C6_Witness ==
    /\ \E q \in Slots : state[q] = PROCESS_BLOCKED /\ q # current_process
    /\ \E q \in Slots : state[q] = PROCESS_ZOMBIE /\ q # current_process
    /\ last.op = "sched_switch"

\* C7: a task that has come back from the scheduler_schedule() call of
\* scheduler_sleep(t) finds the tick count at or past its wake_time (the tick
\* of the call plus t).
C7_SleepBlocksUntilWakeTime ==
    \A p \in Slots :
        (~halted /\ p = current_process /\ pc[p] = "sl_ret") => ticks >= wake_time[p]

\* C9: every change of a process state is one of the eight transitions of the
\* state machine (a record that is created enters it as Ready).
AllowedTransitions ==
    { <<PROCESS_READY, PROCESS_RUNNING>>, <<PROCESS_RUNNING, PROCESS_READY>>,
      <<PROCESS_RUNNING, PROCESS_SLEEPING>>, <<PROCESS_SLEEPING, PROCESS_READY>>,
      <<PROCESS_RUNNING, PROCESS_WAITING>>, <<PROCESS_WAITING, PROCESS_READY>>,
      <<PROCESS_RUNNING, PROCESS_ZOMBIE>>, <<PROCESS_ZOMBIE, PROCESS_BLOCKED>>,
      <<PROCESS_FREE, PROCESS_READY>> }

C9_OnlyStateMachineTransitions ==
    [][\A q \in Slots :
         state'[q] # state[q] => <<state[q], state'[q]>> \in AllowedTransitions]_vars

\* C10: the idle task has pid 0, every record created later has a pid
\* greater than the pid of every record created before it, and so no two
\* records share a pid (slots are handed out in the order of creation).
C10_PidsMonotoneAndUnique ==
    /\ pid[1] = 0
    /\ \A q \in Allocated, r \in Allocated : q < r => pid[q] < pid[r]


\* Task p is inside process_waitpid.
InWaitpid(p) == pc[p] \in {"wp_state", "wp_wfp", "wp_sched", "wp_scan"}

\* c is a Zombie child of p that the filter of p's waitpid call accepts.
MatchingZombie(p, c) ==
    /\ c # p
    /\ state[c] = PROCESS_ZOMBIE
    /\ parent_pid[c] = pid[p]
    /\ (arg[p] = -1 \/ arg[p] = pid[c])

\* C3: process_waitpid returns only by reaping a Zombie child, and a task
\* that is inside process_waitpid while a matching Zombie child exists
\* eventually returns from it (unless the kernel has halted).
C3_WaitpidNoLostWakeup ==
    /\ [][\A p \in Slots :
            (InWaitpid(p) /\ pc'[p] = "run") =>
                \E c \in Slots : /\ state[c] = PROCESS_ZOMBIE
                                 /\ state'[c] = PROCESS_BLOCKED
                                 /\ parent_pid[c] = pid[p]]_vars
    /\ \A p \in Slots, c \in Slots :
            (InWaitpid(p) /\ MatchingZombie(p, c)) ~> (pc[p] = "run" \/ halted)

\* C8: a call of scheduler_schedule() that returns leaves no list process
\* Sleeping whose wake_time is at or before the tick count of the call, and a
\* Sleeping process whose wake_time has been reached is eventually Running
\* (unless the kernel has halted).
C8_DueSleeperWakesAndRuns ==
    /\ [][last'.op \in {"sched_early", "sched_switch"} =>
            \A q \in ListNodes :
                (state[q] = PROCESS_SLEEPING /\ ticks' >= wake_time[q])
                    => state'[q] \in {PROCESS_READY, PROCESS_RUNNING}]_vars
    /\ \A q \in Slots :
            (state[q] = PROCESS_SLEEPING /\ ticks >= wake_time[q])
                ~> (state[q] = PROCESS_RUNNING \/ halted)

\* The list processes that are Ready or Running once the sweep at tick `now'
\* has woken the due sleepers.
RunnableAfterSweep(now) ==
    {q \in ListNodes : \/ state[q] \in {PROCESS_READY, PROCESS_RUNNING}
                       \/ state[q] = PROCESS_SLEEPING /\ now >= wake_time[q]}

RECURSIVE Passed(_, _, _)
\* The processes a walk along next passes from p before it is at n.
Passed(p, n, fuel) ==
    IF p = n \/ p = NULL \/ fuel = 0 THEN {}
    ELSE {p} \cup Passed(next[p], n, fuel - 1)

RECURSIVE Turns(_, _, _, _)
\* The processes that n successive calls of scheduler_schedule() switch to
\* (NULL for a call that does not switch), from states st and current cur.
Turns(st, cur, now, n) ==
    IF n = 0 THEN << >>
    ELSE LET r == schedule_from(st, cur, now)
         IN  << IF r.how = "switch" THEN r.cur ELSE NULL >>
                 \o Turns(r.st, r.cur, now, n - 1)

IsSwitch(q) == q # NULL

\* Every k consecutive switches among 2k calls of schedule() at tick `now'
\* make each of the k runnable processes Running once, and with two or more
\* runnable processes every call switches.
FairRotation(now) ==
    LET R == RunnableAfterSweep(now)
        k == Cardinality(R)
        sw == SelectSeq(Turns(state, current_process, now, 2 * k), IsSwitch)
    IN  /\ k >= 2 => Len(sw) = 2 * k
        /\ \A i \in 1 .. Len(sw) - k + 1 : {sw[j] : j \in i .. i + k - 1} = R

\* C11: a call of scheduler_schedule() that switches makes Running the first
\* process after the current one, along next, that is Ready or Running after
\* the wake sweep; and from every state in which the list can be walked,
\* repeated calls of schedule() make each of the k runnable processes Running
\* once in every k consecutive switches.
C11_RoundRobinInListOrder ==
    /\ [][last'.op = "sched_switch" =>
            /\ current_process' # current_process
            /\ current_process' \in RunnableAfterSweep(ticks')
            /\ current_process' \in Reached(next[current_process], MaxSlots)
            /\ state'[current_process'] = PROCESS_RUNNING
            /\ \A q \in Passed(next[current_process], current_process', MaxSlots) :
                   q \notin RunnableAfterSweep(ticks')]_vars
    /\ [](~WalkFaults =>
            \A now \in {ticks, IF ticks < MaxTicks THEN ticks + 1 ELSE ticks} :
                FairRotation(now))

\* C11 witness: in a list of three processes a switch has just passed over a
\* reaped (Blocked) process, from the process that is now Ready behind the
\* current one.
C11_Witness ==
    /\ last.op = "sched_switch"
    /\ ~WalkFaults
    /\ Cardinality(ListNodes) = 3
    /\ Cardinality(RunnableAfterSweep(ticks)) = 2
    /\ state[next[current_process]] = PROCESS_READY
    /\ state[next[next[current_process]]] = PROCESS_BLOCKED

\* C12 as stated: validate_user_ptr(P, L) is true exactly when P # 0 and
\* P + L <= 2^47 with no wraparound of the 64-bit sum.
C12_AcceptsExactlySumWithinUserSpace ==
    last.op = "validate_user_ptr" =>
        (last.p = 1 <=> /\ last.val # 0
                        /\ last.val + last.st < Word
                        /\ last.val + last.st <= USER_SPACE_MAX)

\* C12 amended: validate_user_ptr(P, L) is true exactly when P # 0,
\* P < 2^47 and P + L <= 2^47, for all L including 0 (so P = 2^47 with L = 0
\* is rejected).
C12_AcceptsExactlyRegionsInUserSpace ==
    last.op = "validate_user_ptr" =>
        (last.p = 1 <=> /\ last.val # 0
                        /\ last.val < USER_SPACE_MAX
                        /\ last.val + last.st <= USER_SPACE_MAX)

\* C12 witness: a region that ends at the last byte of user space is accepted.
C12_Witness ==
    /\ last.op = "validate_user_ptr"
    /\ last.st > 1
    /\ last.val + last.st = USER_SPACE_MAX
    /\ last.p = 1

\* The FD table as every syscall sees it: slots 0, 1, 2 count as in use from
\* the start (init_fd_table reserves them before the first look at the table).
FdView == init_fd_table(fd_table, fd_initialized)

\* The region [P, P + L) is out of range: P is null or in the kernel half, or
\* the region crosses 2^47 or wraps.
OutOfRange(P, L) == P = 0 \/ P >= USER_SPACE_MAX \/ P + L > USER_SPACE_MAX

\* A rejected call: it returns (u64)-1 and the FD table, the file cursors, the
\* screen cursor and the process states are as before.
RejectedWithoutEffect ==
    /\ last'.val = SYS_ERR
    /\ FdView' = FdView
    /\ sys_cursor_x' = sys_cursor_x /\ sys_cursor_y' = sys_cursor_y
    /\ state' = state

\* C13: read, write, open and wait4 with an out-of-range buffer (for every
\* count >= 0; for wait4 a nonzero status pointer of 4 bytes; for open the
\* string with its NUL) return (u64)-1 and change neither the FD table, nor a
\* file cursor, nor the screen cursor, nor a process state.
C13_OutOfRangeBufferRejected ==
    [][\A p \in Slots :
         /\ \A fd \in FdArgs, buf \in PtrArgs, count \in CountArgs :
                (SysRead(p, fd, buf, count) /\ OutOfRange(buf, count))
                    => RejectedWithoutEffect
         /\ \A fd \in FdArgs, buf \in PtrArgs, count \in CountArgs :
                ((\E text \in Texts(count) : SysWrite(p, fd, buf, count, text))
                        /\ OutOfRange(buf, count))
                    => RejectedWithoutEffect
         /\ \A str \in PtrArgs, n \in Names :
                (SysOpen(p, str, n) /\ OutOfRange(str, Len(n) + 1))
                    => RejectedWithoutEffect
         /\ \A a \in WaitArgs, sp \in PtrArgs :
                (SysWait4(p, a, sp) /\ sp # 0 /\ OutOfRange(sp, SIZEOF_INT32))
                    => RejectedWithoutEffect]_vars

\* The region [P, P + L) lies in user space and P is not null.
InUserSpace(P, L) == P # 0 /\ P < USER_SPACE_MAX /\ P + L <= USER_SPACE_MAX

FileFds == 3 .. MAX_OPEN_FILES - 1

\* C15: every file slot that is in use has a non-null filename that is an
\* entry of the mounted image, and its cursor is at most its size.
C15_OpenSlotsPointIntoImage ==
    \A i \in FileFds :
        fd_table[i].in_use =>
            /\ fd_table[i].filename # NULL
            /\ fd_table[i].filename \in 1 .. Len(entries)
            /\ fd_table[i].size = entries[fd_table[i].filename].size
            /\ fd_table[i].position <= fd_table[i].size

\* C15 witness: a file has been read to its end (cursor = size > 0) while a
\* second slot, closed and opened again, is in use with its cursor at 0.
C15_Witness ==
    /\ \E i \in FileFds :
          /\ fd_table[i].in_use
          /\ fd_table[i].size > 0
          /\ fd_table[i].position = fd_table[i].size
    /\ \E j \in FileFds : fd_table[j].in_use /\ fd_table[j].position = 0
    /\ last.op = "read_ret" /\ last.val > 0

\* The slice data[p .. p+n) of a file.
Slice(f, n) == [k \in 1 .. n |-> ByteAt(f.data, f.position + k - 1)]

\* C16: a read with a valid buffer on a file slot in use copies
\* n = min(count, size - position) bytes from the cursor, advances the cursor
\* by n and returns n, leaving every other slot alone; a read on an fd out of
\* range or not in use returns -1.
C16_ReadCopiesFromCursor ==
    (\A fd \in FdArgs, buf \in PtrArgs, count \in CountArgs :
          LET t == FdView
              r == sys_read(fd_table, fd_initialized, fd, buf, count)
          IN InUserSpace(buf, count) =>
               /\ (fd \in FileFds /\ t[fd].in_use) =>
                     LET f == t[fd]
                         n == IF count < f.size - f.position
                                THEN count ELSE f.size - f.position
                     IN /\ r.ret = n
                        /\ r.out = Slice(f, n)
                        /\ \A k \in 1 .. n : r.out[k] # BeyondFile
                        /\ r.table = [t EXCEPT ![fd].position = f.position + n]
               /\ (fd \notin FdRange \/ ~t[fd].in_use) =>
                     r.ret = SYS_ERR /\ r.table = t)

\* C16 witness: the second read of the two-byte file has returned its second
\* byte, and the cursor is at the end of the file.
C16_Witness ==
    /\ last.op = "read_ret" /\ last.val = 1
    /\ last.st = <<11>>
    /\ \E i \in FileFds :
          fd_table[i].in_use /\ fd_table[i].size = 2 /\ fd_table[i].position = 2

\* The lowest file slot that is not in use in table t (0 when there is none).
LowestFree(t) ==
    IF \E i \in FileFds : ~t[i].in_use
    THEN CHOOSE i \in FileFds : ~t[i].in_use /\ \A j \in 3 .. i - 1 : t[j].in_use
    ELSE 0

\* C17: sys_open of a valid name pointer whose name is in the image returns
\* the lowest file slot not in use and fills it with in_use, position 0 and
\* the entry's name, size and data, leaving the other slots alone; it never
\* returns 0, 1 or 2; with an invalid pointer, an unknown name or no free
\* slot it returns -1 and leaves every file slot as it was.
C17_OpenTakesLowestFreeSlot ==
    \A str \in PtrArgs, n \in Names :
        LET t == FdView
            r == sys_open(fd_table, fd_initialized, str, n)
            e == find_entry(n)
            ok == InUserSpace(str, Len(n) + 1) /\ e # NULL /\ LowestFree(t) # 0
        IN  /\ r.ret \notin {0, 1, 2}
            /\ ok => /\ r.ret = LowestFree(t)
                     /\ r.table = [t EXCEPT ![r.ret] =
                            [in_use |-> TRUE, filename |-> e, position |-> 0,
                             size |-> entries[e].size, data |-> e]]
            /\ ~ok => /\ r.ret = SYS_ERR
                      /\ \A i \in FileFds : r.table[i] = fd_table[i]

\* C17 witness: an open has returned slot 3 while slot 4 is in use, so slot 3
\* was closed and taken again.
C17_Witness ==
    /\ last.op = "open_ret" /\ last.val = 3
    /\ fd_table[3].in_use /\ fd_table[3].position = 0
    /\ fd_table[4].in_use /\ fd_table[4].position > 0

\* C18: sys_close returns -1 and leaves the FD table as it was when fd < 3,
\* fd >= MAX_OPEN_FILES or the slot is not in use; otherwise it returns 0 and
\* clears in_use of that slot only, after which read and close on it return
\* -1.  Slots 0, 1, 2 are always in use, and a slot that is not in use only
\* comes into use by an open that returns it.
C18_CloseClearsOneSlot ==
    /\ [](\A fd \in FdArgs :
            LET t == FdView
                r == sys_close(fd_table, fd_initialized, fd)
            IN  /\ \A i \in {STDIN_FD, STDOUT_FD, STDERR_FD} : t[i].in_use
                /\ (fd < 3 \/ fd >= MAX_OPEN_FILES \/ ~t[fd].in_use) =>
                       r.ret = SYS_ERR /\ r.table = t
                /\ (fd \in FileFds /\ t[fd].in_use) =>
                       /\ r.ret = 0
                       /\ r.table = [t EXCEPT ![fd].in_use = FALSE]
                       /\ sys_close(r.table, r.init, fd).ret = SYS_ERR
                       /\ \A buf \in PtrArgs, count \in CountArgs :
                              sys_read(r.table, r.init, fd, buf, count).ret = SYS_ERR)
    /\ [][\A i \in FdRange :
            (~FdView[i].in_use /\ FdView'[i].in_use) =>
                last'.op = "open_ret" /\ last'.val = i]_vars

\* C18 witness: the second close of slot 3 has failed; the slot still holds
\* the name of the file it was opened on, and slot 4 is still open.
C18_Witness ==
    /\ last.op = "close_ret" /\ last.val = SYS_ERR /\ last.st = 3
    /\ ~fd_table[3].in_use /\ fd_table[3].filename # NULL
    /\ fd_table[4].in_use

\* C19: WAIT4 with a nonzero status pointer that is not a valid 4-byte user
\* region returns -1 at once: no process changes state (no Zombie becomes
\* Blocked, the caller is not Waiting), the caller stays the running task at
\* its return to user code.  With a zero status pointer the call is never
\* rejected, and when it reaps it writes no status.
C19_Wait4RejectsBadStatusPointer ==
    [][\A p \in Slots, a \in WaitArgs :
         /\ \A sp \in PtrArgs :
               (SysWait4(p, a, sp) /\ sp # 0 /\ ~InUserSpace(sp, SIZEOF_INT32)) =>
                   /\ last' = Event("wait4_ret", p, SYS_ERR, NoStatus)
                   /\ state' = state
                   /\ current_process' = current_process
                   /\ pc' = pc /\ arg' = arg
         /\ SysWait4(p, a, 0) =>
               /\ last'.op # "wait4_ret"
               /\ last'.op = "waitpid_ret" =>
                     /\ last'.st = NoStatus
                     /\ \E z \in Slots :
                           /\ state[z] = PROCESS_ZOMBIE
                           /\ state'[z] = PROCESS_BLOCKED
                           /\ last'.val = pid[z]]_vars

\* C19 witness: a WAIT4 was rejected although a zombie child of the caller
\* was there to reap; the child is still a Zombie and the caller still runs.
C19_Witness ==
    /\ last.op = "wait4_ret" /\ last.val = SYS_ERR
    /\ \E z \in Slots :
          /\ state[z] = PROCESS_ZOMBIE
          /\ parent_pid[z] = pid[last.p]
    /\ current_process = last.p
    /\ state[last.p] = PROCESS_RUNNING

\* The characters in the ring, oldest first: the slots from start up to end.
RingContents ==
    [k \in 1 .. (kb_buffer_end - kb_buffer_start) % KB_BUFFER_SIZE |->
        kb_buffer[(kb_buffer_start + k - 1) % KB_BUFFER_SIZE]]

\* C20: the keyboard ring is FIFO.  kb_fifo is the sequence of characters
\* whose push was not dropped and that no get_char has returned yet; the
\* ring holds exactly that sequence, a get_char that returns a character
\* returns the oldest of them and removes it, and a get_char returns 0 for
\* an empty ring only when none is left.
C20_KeyboardRingIsFifo ==
    /\ [](kb_fifo = RingContents)
    /\ [][last'.op = "get_char" =>
            IF last'.st = 1
            THEN /\ kb_fifo # << >>
                 /\ last'.val = Head(kb_fifo)
                 /\ kb_fifo' = Tail(kb_fifo)
            ELSE kb_fifo = << >> /\ kb_fifo' = << >> /\ last'.val = 0]_vars
    /\ [][last'.op = "kb_push" =>
            IF last'.st = 1
            THEN kb_fifo' = Append(kb_fifo, last'.val)
            ELSE kb_fifo' = kb_fifo /\ Len(kb_fifo) = KB_BUFFER_SIZE - 1]_vars

\* C20 witness: a get_char has returned a character and left two in the ring,
\* which wraps around the end of the buffer and holds two different
\* characters.
C20_Witness ==
    /\ last.op = "get_char" /\ last.st = 1
    /\ kb_buffer_end < kb_buffer_start
    /\ Len(kb_fifo) = 2 /\ kb_fifo[1] # kb_fifo[2]

\* C21: start = end exactly when no stored character is unread; a push onto
\* a full ring (KB_BUFFER_SIZE - 1 unread characters) is dropped and leaves
\* indices and unread characters as they were, and no other push is dropped;
\* usb_hid_keyboard_has_char() is true exactly when the next get_char
\* returns a pushed character.
C21_EmptyIffIndicesMeet ==
    /\ []((kb_buffer_start = kb_buffer_end) <=> (kb_fifo = << >>))
    /\ [](usb_hid_keyboard_has_char <=> Len(kb_fifo) > 0)
    /\ [][last'.op = "kb_push" =>
            IF Len(kb_fifo) = KB_BUFFER_SIZE - 1
            THEN /\ last'.st = 0
                 /\ kb_buffer_start' = kb_buffer_start
                 /\ kb_buffer_end' = kb_buffer_end
                 /\ RingContents' = RingContents
            ELSE last'.st = 1 /\ Len(kb_fifo') = Len(kb_fifo) + 1]_vars
    /\ [][last'.op = "get_char" =>
            (usb_hid_keyboard_has_char <=> last'.st = 1)]_vars

\* C21 witness: a push has been dropped by a full ring that wraps around the
\* end of the buffer.
C21_Witness ==
    /\ last.op = "kb_push" /\ last.st = 0
    /\ Len(kb_fifo) = KB_BUFFER_SIZE - 1
    /\ kb_buffer_end < kb_buffer_start
    /\ usb_hid_keyboard_has_char

\* The character of a key code under the modifiers of report r (0: none).
CharOf(r, code) ==
    IF code = 0 \/ code >= 128 THEN 0 ELSE PressChar(HasShift(r), HasCtrl(r), code)

\* The key codes of report r that are absent from report prev and have a
\* character.
NewCodes(prev, r) ==
    {code \in {r.keys[i] : i \in 1 .. ReportKeys} :
        /\ \A j \in 1 .. ReportKeys : prev.keys[j] # code
        /\ CharOf(r, code) # 0}

\* The characters of the slots of r that hold such a code, in slot order.
NewChars(prev, r) ==
    LET cs == [i \in 1 .. ReportKeys |->
                  IF r.keys[i] \in NewCodes(prev, r) THEN CharOf(r, r.keys[i]) ELSE 0]
    IN  SelectSeq(cs, LAMBDA c : c # 0)

\* The character the key repeat of the latest poll pushed, as a sequence.
RepeatChars(log) == IF log.repeated # 0 THEN << log.repeated >> ELSE << >>

\* What the step appended to the unread characters.
Enqueued == SubSeq(kb_fifo', Len(kb_fifo) + 1, Len(kb_fifo'))

\* The free slots of the ring.
Room == KB_BUFFER_SIZE - 1 - Len(kb_fifo)

\* A poll that made a keyboard transfer; last_keyboard_report' is the report
\* it processed (the previous one again when the transfer brought none).
KeyboardPolled == last'.op = "hid_poll" /\ hid_log'.kb_xfer

\* C22 as stated: processing a report enqueues exactly one character for
\* each key code that is in it, was not in the previous report and has a
\* character, and none for the other codes (the key repeat aside); the same
\* report again enqueues none.
C22_OneCharPerNewCode ==
    [][KeyboardPolled =>
         LET new == NewCodes(last_keyboard_report, last_keyboard_report')
             rep == RepeatChars(hid_log')
         IN  /\ Len(Enqueued) = Cardinality(new) + Len(rep)
             /\ \A code \in new :
                   Len(SelectSeq(SubSeq(Enqueued, 1, Cardinality(new)),
                                 LAMBDA c : c = CharOf(last_keyboard_report', code))) = 1]_vars

\* C22 amended: processing a report enqueues, in slot order, the character
\* of every slot that holds a code absent from the previous report and with
\* a character (twice for a code that fills two slots), up to the room left
\* in the ring; slots with a code of the previous report, and the same report
\* again, enqueue none.
C22_OneCharPerNewSlotWhileRoom ==
    [][KeyboardPolled =>
         LET cs == NewChars(last_keyboard_report, last_keyboard_report')
                       \o RepeatChars(hid_log')
             n == IF Len(cs) < Room THEN Len(cs) ELSE Room
         IN  Enqueued = SubSeq(cs, 1, n)]_vars

\* C22 witness: after the report {a} the report {a, b} was processed and
\* pushed one character, 'b'.
C22_Witness ==
    /\ last.op = "hid_poll" /\ last.val = 1
    /\ last_keyboard_report.keys = << KEY_A, KEY_B >>
    /\ kb_fifo = << 97, 98 >>

\* The key of the latest press that pushed a character is still held: every
\* report since, and the latest one, contains it.
Held(log, report) ==
    /\ log.press_at >= 0
    /\ \E i \in 1 .. ReportKeys : report.keys[i] = log.press_key

\* C23: after a key press at tick t0 (the latest press), with the key held:
\* no repeat character is pushed before t0 + REPEAT_DELAY_TICKS; two
\* successive repeats are at least REPEAT_RATE_TICKS apart; and when
\* usb_hid_poll has been called at every tick since the press, the first
\* poll of a tick pushes a repeat exactly at the ticks t0 + REPEAT_DELAY_TICKS
\* + n * REPEAT_RATE_TICKS.
C23_RepeatAfterDelayAtRate ==
    [][last'.op = "hid_poll" =>
         LET log == hid_log'
             now == timer_ticks
             held == Held(log, last_keyboard_report')
             first == hid_log.at # now
             due == /\ now >= log.press_at + REPEAT_DELAY_TICKS
                    /\ (now - log.press_at - REPEAT_DELAY_TICKS) % REPEAT_RATE_TICKS = 0
         IN  /\ (held /\ log.repeated # 0) =>
                   /\ now >= log.press_at + REPEAT_DELAY_TICKS
                   /\ log.rep_at >= log.press_at => now - log.rep_at >= REPEAT_RATE_TICKS
             /\ (held /\ ~log.gap /\ first) => (due <=> log.repeated # 0)]_vars

\* C24: whenever the screen is at least 1 x 1, the mouse position is inside
\* it, whatever reports arrived; a report of fewer than 3 bytes changes no
\* mouse state.
C24_MouseStaysOnScreen ==
    /\ []((screen_width >= 1 /\ screen_height >= 1) =>
            /\ 0 <= mouse_x /\ mouse_x < screen_width
            /\ 0 <= mouse_y /\ mouse_y < screen_height)
    /\ [][(last'.op = "hid_poll" /\ hid_log'.mouse_len < 3) =>
            UNCHANGED mousevars]_vars

\* C24 witness: on a 3 x 3 screen a report with the largest deltas has moved
\* the mouse from the centre to the last column and row.
C24_Witness ==
    /\ last.op = "hid_poll" /\ hid_log.mouse_len >= 3
    /\ screen_width = 3 /\ screen_height = 3
    /\ mouse_x = 2 /\ mouse_y = 2
    /\ mouse_data_received

\* Two transfers to the keyboard endpoint are at least the interval apart.
KeyboardIntervalKept ==
    (hid_log.kb_xfer /\ hid_log.kb_at >= 0) =>
        hid_log.at - hid_log.kb_at >= kb_interval(usb_devices[1])

\* Two transfers to the mouse endpoint are at least the interval apart.
MouseIntervalKept ==
    (hid_log.mouse_xfer /\ hid_log.mouse_at >= 0) =>
        hid_log.at - hid_log.mouse_at >= kb_interval(usb_devices[1])

\* C25: usb_hid_poll keeps the poll interval of every endpoint, keyboard and
\* mouse alike: two transfers to the same endpoint are never less than the
\* interval apart.
C25_PollIntervalKept == KeyboardIntervalKept /\ MouseIntervalKept

\* acpi_init has run, found a FADT and was given a DSDT to parse.
ParsedDsdt ==
    /\ acpi_tables # << >>
    /\ acpi_tables[1].rsdp /\ acpi_tables[1].rsdt_ok /\ acpi_tables[1].fadt
    /\ acpi_tables[1].dsdt_addr # 0

\* C26: after acpi_init on a checksum-valid DSDT in which the name _S5_ is
\* followed by PackageOp, a package length and the integers a and b,
\* slp_typa = a << 10 and slp_typb = b << 10.
C26_S5PackageRead ==
    (/\ ParsedDsdt
     /\ acpi_tables[1].dsdt.shape = "package"
     /\ sdt_checksum_valid(acpi_tables[1].dsdt)) =>
        /\ slp_typa = acpi_tables[1].dsdt.a * 2 ^ SLP_TYP_SHIFT
        /\ slp_typb = acpi_tables[1].dsdt.b * 2 ^ SLP_TYP_SHIFT

\* The DSDT cannot be parsed for S5: no name, no package after the name, a
\* package whose elements are no integers, or a checksum failure.
S5ParseFails ==
    \/ acpi_tables[1].dsdt.shape \in {"no name", "no package", "malformed"}
    \/ ~sdt_checksum_valid(acpi_tables[1].dsdt)

\* C27: when acpi_init found a FADT and the DSDT cannot be parsed for S5,
\* slp_typa and slp_typb are both 5 << 10.
C27_DefaultOnParseFailure ==
    (ParsedDsdt /\ S5ParseFails) =>
        /\ slp_typa = SLP_TYP_DEFAULT * 2 ^ SLP_TYP_SHIFT
        /\ slp_typb = SLP_TYP_DEFAULT * 2 ^ SLP_TYP_SHIFT

\* The writes of the latest acpi_poweroff to the PM1 control blocks.
IsPm1Write(e) == e.op = "outw" /\ e.port \in {pm1a_cnt, pm1b_cnt} \ {0}
Pm1Writes == SelectSeq(io_log, IsPm1Write)

\* The first S5 attempt: the parsed sleep types on PM1a_CNT and, if there is
\* one, on PM1b_CNT.
FirstAttempt ==
    << Outw(pm1a_cnt, WithSlpEn(slp_typa)) >>
    \o (IF pm1b_cnt # 0 THEN << Outw(pm1b_cnt, WithSlpEn(slp_typb)) >> ELSE << >>)

\* C28: with ACPI available, the PM1 writes of acpi_poweroff start with
\* slp_typa | SLP_EN on PM1a_CNT and, when PM1b_CNT is nonzero,
\* slp_typb | SLP_EN on PM1b_CNT, before any common sleep type; for
\* slp_typa = 5 << 10 the value is (5 << 10) | (1 << 13).
C28_ParsedTypesFirst ==
    (last.op = "acpi_poweroff" /\ acpi_available /\ pm1a_cnt # 0) =>
        /\ \A i \in 1 .. Len(FirstAttempt) :
              i <= Len(Pm1Writes) => Pm1Writes[i] = FirstAttempt[i]
        /\ (slp_typa = 5 * 1024 /\ Len(Pm1Writes) > 0) => Pm1Writes[1].value = 13312

\* C29: when acpi_poweroff has returned, its last two writes are 0x2000 to
\* the QEMU port and then 0x2000 to the Bochs port, with or without ACPI,
\* after every write to a PM1 control block.
C29_EmulatorPortsLast ==
    (last.op = "acpi_poweroff" /\ ~powered_off) =>
        /\ Len(io_log) >= 2
        /\ io_log[Len(io_log) - 1] = Outw(QEMU_SHUTDOWN_PORT, QEMU_SHUTDOWN_VALUE)
        /\ io_log[Len(io_log)] = Outw(BOCHS_SHUTDOWN_PORT, QEMU_SHUTDOWN_VALUE)
        /\ \A i \in 1 .. Len(io_log) - 2 : io_log[i].port \notin
              {QEMU_SHUTDOWN_PORT, BOCHS_SHUTDOWN_PORT}

\* What unifs_open(name) returns on the mounted image: the handle, or NoFile
\* for nullptr.
Opened(name) ==
    LET e == IF mounted THEN find_entry_from(fs_start, name, 0) ELSE -1
    IN  IF e = -1 THEN NoFile ELSE FileOf(fs_start, e)

\* The image built from fs_files is mounted.
BuiltMounted == mounted /\ fs_start = build(fs_files)

\* Every file of the list opens to its size and bytes, the count is the
\* number of files, and a name of no file is not found.
RoundTrip ==
    /\ \A i \in 1 .. Len(fs_files) :
          /\ Opened(fs_files[i].name) # NoFile
          /\ Opened(fs_files[i].name).size = Len(fs_files[i].contents)
          /\ FileBytes(fs_start, Opened(fs_files[i].name)) = fs_files[i].contents
    /\ unifs_get_file_count = Len(fs_files)
    /\ \A name \in AskedNames :
          (\A i \in 1 .. Len(fs_files) : fs_files[i].name # name) => Opened(name) = NoFile

\* C30 as stated: the round trip holds for the image of every list of files.
C30_RoundTripAnyList == BuiltMounted => RoundTrip

DistinctNames ==
    \A i, j \in 1 .. Len(fs_files) : fs_files[i].name = fs_files[j].name => i = j

\* C30: for the image built from a list of files with pairwise distinct
\* names, after unifs_init every file opens to a handle with its size and its
\* bytes, unifs_get_file_count() is the number of files, and a name that is
\* not in the list is not found.
C30_RoundTripDistinctNames == (BuiltMounted /\ DistinctNames) => RoundTrip

\* C30 witness: of two files "a" and "ab", the second was opened and the
\* static handle holds its two bytes.
C30_Witness ==
    /\ BuiltMounted
    /\ Len(fs_files) = 2
    /\ fs_files[1].name = << 97 >> /\ fs_files[2].name = << 97, 98 >>
    /\ fs_files[1].contents = << 7 >>
    /\ last.op = "unifs_open" /\ last.st = << 97, 98 >>
    /\ open_file = Opened(<< 97, 98 >>)
    /\ FileBytes(fs_start, open_file) = << 8, 9 >>

\* The first bytes of the contents c that is_text_content looks at.
CheckedBytes(c) ==
    {c[i] : i \in 1 .. (IF Len(c) < TEXT_CHECK_SIZE THEN Len(c) ELSE TEXT_CHECK_SIZE)}

StartsAsElf(c) == Len(c) >= 4 /\ SubSeq(c, 1, 4) = ELF_MAGIC

\* The type of the mounted file is ELF by its magic, else Text when the
\* bytes looked at are all in text, else Binary; a name of no file is Unknown.
TypedBy(text) ==
    (mounted /\ Len(fs_files) = 1) =>
        LET c == fs_files[1].contents
        IN  /\ get_file_type(fs_files[1].name) =
                  IF StartsAsElf(c) THEN UNIFS_TYPE_ELF
                  ELSE IF CheckedBytes(c) \subseteq text THEN UNIFS_TYPE_TEXT
                  ELSE UNIFS_TYPE_BINARY
            /\ get_file_type(<< 98 >>) = UNIFS_TYPE_UNKNOWN

\* C31 as stated: Text exactly when the bytes looked at are in {9, 10, 13}
\* or 32..126.
C31_TextIsAscii == TypedBy({9, 10, 13} \cup (32 .. 126))

\* C31: ELF exactly when the first 4 bytes are 7F 'E' 'L' 'F'; otherwise
\* Text exactly when the bytes looked at are in {9, 10, 13}, 32..126 or
\* 160..255; otherwise Binary.
C31_TextIsAsciiOrHigh == TypedBy({9, 10, 13} \cup (32 .. 126) \cup (160 .. 255))

\* C31 witness: the type of a file with a byte 127 behind a letter was asked
\* for and is Binary.
C31_Witness ==
    /\ mounted /\ Len(fs_files) = 1
    /\ fs_files[1].contents = << 65, 127 >>
    /\ last.op = "unifs_get_file_type" /\ last.st = << 97 >>
    /\ last.val = UNIFS_TYPE_BINARY

\* The tables a walk from the PML4 can reach through present entries of the
\* three upper levels.
RECURSIVE Walked(_, _)
Walked(f, level) ==
    IF level = 0 THEN {}
    ELSE {f} \cup UNION {Walked(FrameOf(pt_mem[f][i]), level - 1) :
                            i \in {j \in 0 .. TableEntries - 1 : IsPresent(pt_mem[f][j])}}

\* C32: every table the mapper installed is at a frame-aligned address and
\* was all zero when its entry was installed, and a walk reaches only the
\* PML4 and installed tables.
C32_TablesZeroWhenInstalled ==
    /\ \A r \in vmm_log : r.phys % PageSize = 0 /\ r.zero
    /\ Walked(0, 3) \subseteq {0} \cup {r.frame : r \in vmm_log}

\* C33: for ms > 0, scheduler_sleep_ms sleeps the smallest number of ticks
\* that lasts ms milliseconds or more at the timer's frequency, one at
\* least, whatever the size of ms * freq.
C33_SleepMsRoundsUp ==
    last.op = "scheduler_sleep_ms" =>
        LET ms == last.st.ms
            freq == last.st.freq
            t == last.val
        IN  ms > 0 =>
                /\ t >= 1
                /\ t * 1000 >= ms * freq
                /\ (t - 1) * 1000 < ms * freq

\* C34: whenever scheduler_schedule() switches tasks, from the timer IRQ or
\* from a task's own call, scheduler_lock is free.
C34_LockFreeAtSwitch ==
    last.op = "sched_switch" => scheduler_lock = 0

\* A call of scheduler_schedule() has disabled interrupts and has not yet
\* restored them or switched.
InWindow(f) == f.at \in {"sweep", "find", "restore", "update", "switch"}

\* C35: a scheduler_schedule() that returns without switching leaves the
\* interrupt-enable flag as it was at entry; one that switches runs with
\* interrupts disabled from the wake sweep to switch_to_task, and the timer
\* interrupt never arrives with current_process not the task on the CPU.
C35_InterruptDiscipline ==
    /\ last.op = "schedule_return" => last.val = last.st
    /\ ~halted /\ Depth(on_stack) > 0 /\ InWindow(Top(on_stack)) => ~if_flag
    /\ last.op = "switch_to_task" => last.val = FALSE
    /\ last.op = "irq" => last.val = last.p

\* A task that was switched to called scheduler_schedule() with interrupts
\* enabled, and the call returned without switching.
C35_Witness ==
    last.op = "schedule_return" /\ last.st = TRUE /\ last.val = TRUE /\ on_stack # 1

\* C36: a poll pushes a repeat character only for a key that the latest
\* report processed contains.
C36_RepeatOnlyWhileHeld ==
    (last.op = "hid_poll" /\ hid_log.repeated # 0) =>
        \E i \in 1 .. ReportKeys : last_keyboard_report.keys[i] = repeat_keycode

\* C37: with the lines of a push and of a get_char interleaved in any way,
\* get_char returns the characters pushed, each once and in order, and
\* nothing else; it finds the ring empty only when nothing is pending; a
\* push drops its character only when the ring is full; and the indices hold
\* exactly what is pending.
C37_RingIsQueue ==
    /\ last.op = "ring_get" => last.val = last.st
    /\ last.op = "ring_empty" => last.st = 0
    /\ last.op = "ring_drop" => last.st = KB_BUFFER_SIZE - 1
    /\ Len(kb_fifo) = (kb_buffer_end + KB_BUFFER_SIZE - kb_buffer_start) % KB_BUFFER_SIZE

\* C37 witness: a get_char returned 2 and wrapped kb_buffer_start to 0 while
\* a push had stored its character and not yet published it.
C37_Witness ==
    /\ last.op = "ring_get" /\ last.val = 2 /\ last.st = 2
    /\ push_at = "publish"
    /\ kb_buffer_start = 0

\* C38: no call of scheduler_schedule(), from the timer IRQ inside a link
\* step or from anywhere else, walks into a null next pointer: every walk
\* comes back to the process it started at.
C38_WalksNeverFault ==
    last.op # "sched_fault"

\* C39: two opens of different tasks that are both still open have distinct
\* fds, and no open fills a slot that is in use.
C39_OpensGetDistinctFds ==
    /\ \A g \in fd_holders, h \in fd_holders : (g # h /\ g[1] # h[1]) => g[2] # h[2]
    /\ last.op = "open_marked" => last.st = 0

\* C40: a character pushed by key repeat is the character that the press
\* which started the repeat timer pushed, whatever modifiers were held at
\* that press; a press that pushed nothing repeats nothing.
C40_RepeatEqualsPress ==
    (last.op = "hid_poll" /\ hid_log.repeated # 0) =>
        hid_log.repeated = hid_log.start_char

====
